---- MODULE Spec2Model ----
(***************************************************************************)
(* honggfuzz: the worker pool (fuzz_main, fuzz_threadNew), one iteration   *)
(* of the supervisor loop (fuzz_fuzzLoop) and the dynamic-input feedback   *)
(* store (hfuzz->dynamicFileBest, dynamicFileBestSz, hwCnts behind         *)
(* dynamicFile_mutex), as written in src/fuzz.c, src/files.c and           *)
(* src/cmdline.c.                                                          *)
(*                                                                         *)
(* The state is a record hfuzz (honggfuzz_t), one record fuzzer[w] per     *)
(* worker (fuzzer_t, re-initialised at the start of each iteration), the  *)
(* position of every worker (pc) and of the main thread (mainPc), the      *)
(* signal flag fuzz_sigReceived, the files under workDir (fs) and the      *)
(* exit status of the process.                                             *)
(***************************************************************************)
EXTENDS Integers, Sequences, FiniteSets, TLC

(***************************************************************************)
(* Bounds of the model.                                                    *)
(***************************************************************************)
\* largest -n (threadsMax) the configurations range over
MaxThreads == 2
\* largest -F (maxFileSz) the configurations range over, in bytes
MaxFileSzBound == 2
\* largest -N (mutationsMax) the configurations range over
MaxMutations == 2
\* width of a counter of hwcnt_t in the model (uint64_t in the code): the
\* counters are kept modulo 2^CntBits and the differences of the update
\* step are read as two's complement numbers of that width
CntBits == 3
\* the budget _HF_MAX_DYNFILE_ITER (0x2000 in the code) of iterations on one
\* best, scaled to the model
MaxDynFileIter == 1
\* largest number of children of the input directory
MaxEntries == 2
\* largest size, in bytes, of a file or buffer a helper of files.c is
\* called on
MaxIoLen == 2
\* largest number of read() or write() calls of one helper call that a
\* signal interrupts (EINTR)
MaxEintr == 1
\* largest number of characters of a line of the blacklist file
MaxBlDigits == 2
\* largest number of lines of the blacklist file
MaxBlLines == 3
\* largest size of a sysfs file and of the buffer it is read into
MaxSysLen == 2
\* largest number of flag options on the command line
MaxOpts == 3

(***************************************************************************)
(* Signal numbers (signal.h) the handlers of fuzz_main are installed for.  *)
(***************************************************************************)
SIGINT == 2
SIGQUIT == 3
SIGALRM == 14
SIGTERM == 15

TermSignals == {SIGINT, SIGQUIT, SIGTERM}

(***************************************************************************)
(* Values.                                                                 *)
(***************************************************************************)
\* the byte values of the model
Bytes == {0, 1}

\* the non-empty byte strings of at most max bytes
Contents(max) == UNION {[1..n -> Bytes] : n \in 1..max}

\* a buffer of max bytes: malloc(maxFileSz)
Buffers(max) == [1..max -> Bytes]

CntMod == 2 ^ CntBits
CntHalf == 2 ^ (CntBits - 1)

\* the counter values a run reports in the model: none, one, and the two
\* values at which the sign bit of the width matters
CntVals == {0, 1, CntHalf, CntMod - 1}

\* the fields of hwcnt_t
Dims == {"cpuInstrCnt", "cpuBranchCnt", "pcCnt", "pathCnt", "customCnt"}

\* dynFileMethod_t: the counter each feedback method fills
_HF_DYNFILE_NONE == {}
_HF_DYNFILE_INSTR_COUNT == {"cpuInstrCnt"}
_HF_DYNFILE_BRANCH_COUNT == {"cpuBranchCnt"}
_HF_DYNFILE_UNIQUE_BLOCK_COUNT == {"pcCnt"}
_HF_DYNFILE_UNIQUE_EDGE_COUNT == {"pathCnt"}
_HF_DYNFILE_CUSTOM == {"customCnt"}

ZeroCnts == [d \in Dims |-> 0]

\* the counter vectors arch_reapChild can report under a feedback method:
\* the counters of the methods that are off stay at their initial 0
RunCnts(method) == {c \in [Dims -> CntVals] : \A d \in Dims \ method : c[d] = 0}

\* the names fuzz_getFileName can produce (pid, seconds and a random nonce)
CandNames == {"cand_a", "cand_b"}
CURRENT_BEST == "CURRENT_BEST"
TMP_CURRENT_BEST == ".tmp.CURRENT_BEST"
Paths == CandNames \cup {CURRENT_BEST, TMP_CURRENT_BEST}

NoFile == [exists |-> FALSE, data |-> <<>>]
File(data) == [exists |-> TRUE, data |-> data]

NoOwner == 0

VARIABLES
    hfuzz,              \* honggfuzz_t
    fuzzer,             \* fuzzer_t of each worker's current iteration
    pc,                 \* position of each worker thread
    mainPc,             \* position of the main thread
    fuzz_sigReceived,   \* static int fuzz_sigReceived
    fs,                 \* the files under workDir
    exitStatus,         \* "running", or the status the process ended with
    snapTorn,           \* per worker: its last snapshot was taken mid-update
    itersStarted,       \* number of calls of fuzz_fuzzLoop so far
    accepted,           \* the byte strings of the candidates accepted so far
    wakeLost,           \* the SIGALRM of the last worker to finish came
                        \* after the main thread's check, before its pause()
    hist,               \* history of the shared best: seeded from the corpus,
                        \* a counter was ever positive, iterations prepared
                        \* from the best since it last changed
    corpus,             \* the input path, hfuzz->files and hfuzz->fileCnt,
                        \* and the position of files_init
    env,                \* what the file system holds outside workDir
    io                  \* the call of a helper of files.c in progress

vars == <<hfuzz, fuzzer, pc, mainPc, fuzz_sigReceived, fs, exitStatus,
          snapTorn, itersStarted, accepted, wakeLost, hist, corpus, env, io>>

AllWorkers == 1..MaxThreads
Workers == 1..hfuzz.threadsMax

Running == exitStatus = "running"

\* fuzzer_t fuzzer = { ... } of fuzz_fuzzLoop (fuzz.c:273-290).  fileName is
\* filled by fuzz_getFileName (fuzz.c:297) from the pid, the time and a
\* random nonce: the model draws the name where the code first uses it.
\* childStatus is the local of fuzz_prepareFileExternally (fuzz.c:251);
\* created tells that the iteration has created the file fileName and not
\* yet unlinked it; child tells what the process forked at fuzz.c:318 does;
\* firstPass tells, between the snapshot and the write of the candidate,
\* that the snapshot was taken with all counters of the best at zero.
NewFuzzer ==
    [dynamicFile |-> <<>>, dynamicFileSz |-> 0, hwCnts |-> ZeroCnts,
     fileName |-> "", childStatus |-> "none", created |-> FALSE,
     child |-> "none", firstPass |-> FALSE]

NoFuzzer == NewFuzzer

\* a C string: the sequence of its characters
Str1(a) == <<a>>
Str2(a, b) == <<a, b>>

\* common.h:43: #define _HF_FILE_PLACEHOLDER "___FILE___"
_HF_FILE_PLACEHOLDER == <<"_", "_", "_", "F", "I", "L", "E", "_", "_", "_">>

\* (*hfuzz) = (honggfuzz_t) { ... } of cmdlineParse (cmdline.c:128-215),
\* after the options -f, -c, -F, -n, -N and the feedback flags have been
\* read; the target is "t ___FILE___" and the other options are left at
\* their initial values
Config(inputFile, externalCommand, maxFileSz, threadsMax, mutationsMax, method) ==
    [cmdline |-> <<Str1("t"), _HF_FILE_PLACEHOLDER>>,
     fuzzStdin |-> FALSE,
     fileExtn |-> <<"f", "u", "z", "z">>,
     workDir |-> Str1("."),
     tmOut |-> 3,
     pid |-> 0,
     pidFile |-> FALSE,
     useSanCov |-> FALSE,
     inputFile |-> inputFile,
     externalCommand |-> externalCommand,
     maxFileSz |-> maxFileSz,
     threadsMax |-> threadsMax,
     mutationsMax |-> mutationsMax,
     dynFileMethod |-> method,
     threadsFinished |-> 0,
     mutationsCnt |-> 0,
     dynamicFileBest |-> <<>>,
     dynamicFileBestSz |-> 1,
     hwCnts |-> ZeroCnts,
     dynFileIterExpire |-> MaxDynFileIter,
     dynamicFile_mutex |-> NoOwner,
     blacklist |-> <<>>,
     blacklistCnt |-> 0,
     nullifyStdio |-> FALSE,
     useScreen |-> TRUE,
     useVerifier |-> FALSE,
     saveMaps |-> FALSE,
     saveUnique |-> TRUE,
     useSimplifier |-> FALSE]

\* files_init has returned true (the corpus itself is not looked at)
LoadedCorpus ==
    [input |-> "none", inputSize |-> 0, dir |-> <<>>, left |-> {},
     files |-> <<>>, fileCnt |-> 0, pc |-> "done", ret |-> TRUE, error |-> FALSE]

InitProcess ==
    /\ fuzzer = [w \in AllWorkers |-> NoFuzzer]
    /\ pc = [w \in AllWorkers |-> "none"]
    /\ mainPc = "cmdlineParse"
    /\ fuzz_sigReceived = 0
    /\ fs = [p \in Paths |-> NoFile]
    /\ exitStatus = "running"
    /\ snapTorn = [w \in AllWorkers |-> FALSE]
    /\ itersStarted = 0
    /\ accepted = {}
    /\ wakeLost = FALSE
    /\ hist = [seeded |-> FALSE, everPositive |-> FALSE, itersOnBest |-> 0]

\* the workspace directory exists, and getopt_long has no option left to
\* return
DefaultEnv == [workDirExists |-> TRUE, opts |-> <<>>]

\* no helper of files.c is being followed
NoCall == [op |-> "none"]

InitRest ==
    /\ InitProcess
    /\ corpus = LoadedCorpus
    /\ env = DefaultEnv
    /\ io = NoCall


(***************************************************************************)
(* Pure parts of the code.                                                 *)
(***************************************************************************)
\* (int64_t) of an unsigned counter difference
ToInt64(x) == IF x >= CntHalf THEN x - CntMod ELSE x

\* int64_t diff = hfuzz->hwCnts.X - fuzzer.hwCnts.X: the subtraction is
\* unsigned (modulo 2^width), its result is read as a signed number
Diff(best, cand) == ToInt64((best - cand) % CntMod)

\* if (diff0 <= 0 && diff1 <= 0 && diff2 <= 0 && diff3 <= 0 && diff4 <= 0)
AcceptsCandidate(best, cand) == \A d \in Dims : Diff(best[d], cand[d]) <= 0

\* hwCnts.cpuInstrCnt > 0 || ... || hwCnts.customCnt > 0
AnyCntPositive(c) == \E d \in Dims : c[d] > 0

\* hwCnts.cpuInstrCnt == 0ULL && ... && hwCnts.customCnt == 0ULL
AllCntsZero(c) == \A d \in Dims : c[d] = 0

\* memcpy(dst, src, n) into a buffer: the first n bytes are replaced
Memcpy(dst, src, n) == [i \in DOMAIN dst |-> IF i <= n THEN src[i] ELSE dst[i]]

\* the first n bytes of a buffer
Prefix(buf, n) == [i \in 1..n |-> buf[i]]

\* files_readFileToBufMax(files[rnd_index], buf, fileMaxSz): the pairs
\* <<returned size, buffer afterwards>>.  0 is returned with the buffer
\* untouched when the open or the fstat fails, the file is larger than
\* fileMaxSz or empty; 0 is returned with a prefix of the file in the buffer
\* when a read fails part-way; otherwise the size of the file is returned
\* with the file in the buffer.
files_readFileToBufMax(buf, fileMaxSz) ==
    {<<0, buf>>}
    \cup UNION {{<<0, Memcpy(buf, c, n)>> : n \in 1..Len(c)} : c \in Contents(fileMaxSz)}
    \cup {<<Len(c), Memcpy(buf, c, Len(c))>> : c \in Contents(fileMaxSz)}

\* a read without the test of the returned size
ReadFailed_Ignored(fileSz) == FALSE

\* if (fileSz == 0): the test the callers of files_readFileToBufMax make
\* (fuzz.c:122, 174, 214)
ReadFailed(fileSz) == fileSz = 0

\* files_writeBufToFile(fileName, buf, fileSz, flags) as one step: the pairs
\* <<returned bool, files afterwards>>.  open() fails when O_EXCL finds the
\* path taken and may fail for any other reason; a failed write unlinks the
\* file; on success the file holds the buffer.
files_writeBufToFile(files, fileName, data, o_excl) ==
    {<<FALSE, files>>}
    \cup (IF o_excl /\ files[fileName].exists
          THEN {}
          ELSE {<<FALSE, [files EXCEPT ![fileName] = NoFile]>>,
                <<TRUE, [files EXCEPT ![fileName] = File(data)]>>})

\* a candidate opened without O_EXCL
CandidateExcl_Off == FALSE

\* fuzz.c:162, 193: O_EXCL is among the flags the candidate is opened with
CandidateExcl == TRUE

\* mangle_Resize and mangle_mangleContent on a candidate: any size within
\* 1..maxFileSz and any bytes
Mangle(maxFileSz) == Contents(maxFileSz)

(***************************************************************************)
(* Signals.                                                                *)
(***************************************************************************)
\* a handler without the test for SIGALRM
fuzz_sigHandler_NoAlarmCheck(sig) == sig

\* fuzz_sigHandler(sig): the new value of fuzz_sigReceived
fuzz_sigHandler(sig) == IF sig = SIGALRM THEN fuzz_sigReceived ELSE sig

\* A signal for the process is handled by one of its threads: a main thread
\* blocked in pause() returns from it only when the handler ran on it.
PauseReturns(toMain) == IF toMain /\ mainPc = "paused" THEN "check" ELSE mainPc

(***************************************************************************)
(* The mutex.                                                              *)
(***************************************************************************)
\* a lock that does not wait for its owner
MX_LOCK_NoWait(w) == TRUE

\* MX_LOCK(&hfuzz->dynamicFile_mutex) can return for worker w
MX_LOCK(w) == hfuzz.dynamicFile_mutex = NoOwner

\* a return path that keeps the mutex
MX_UNLOCK_Skipped(w) == w

\* MX_UNLOCK(&hfuzz->dynamicFile_mutex) by worker w: the new owner
MX_UNLOCK(w) == NoOwner

(***************************************************************************)
(* fuzz_threadNew                                                          *)
(***************************************************************************)
\* the model stops counting iterations here when no cap is configured
MutationsCap == MaxMutations + MaxThreads

\* the test with > in place of >=
CapReached_OffByOne(fetched) == fetched > hfuzz.mutationsMax /\ hfuzz.mutationsMax # 0

\* fuzz.c:402-403: the test on the value the fetch-and-add returned
CapReached(fetched) == fetched >= hfuzz.mutationsMax /\ hfuzz.mutationsMax # 0

\* fuzz.c:402-403 and, when the loop goes on, the start of fuzz_fuzzLoop
\* (fuzz.c:273-297)
ThreadNew(w) ==
    /\ Running /\ pc[w] = "thread"
    /\ hfuzz.mutationsCnt < MutationsCap
    /\ hfuzz' = [hfuzz EXCEPT !.mutationsCnt = @ + 1]
    /\ IF CapReached(hfuzz.mutationsCnt)
       THEN /\ pc' = [pc EXCEPT ![w] = "finish"]
            /\ UNCHANGED <<fuzzer, itersStarted>>
       ELSE /\ fuzzer' = [fuzzer EXCEPT ![w] = NewFuzzer]
            /\ pc' = [pc EXCEPT ![w] = "prepare"]
            /\ itersStarted' = itersStarted + 1
    /\ UNCHANGED <<mainPc, fuzz_sigReceived, fs, exitStatus, snapTorn, accepted, wakeLost, hist, corpus, env, io>>

\* fuzz.c:404
ThreadFinish(w) ==
    /\ Running /\ pc[w] = "finish"
    /\ hfuzz' = [hfuzz EXCEPT !.threadsFinished = @ + 1]
    /\ pc' = [pc EXCEPT ![w] = "wake"]
    /\ UNCHANGED <<fuzzer, mainPc, fuzz_sigReceived, fs, exitStatus,
                   snapTorn, itersStarted, accepted, wakeLost, hist, corpus, env, io>>

\* fuzz.c:406-407: kill(getpid(), SIGALRM); return NULL
ThreadWake(w) ==
    /\ Running /\ pc[w] = "wake"
    /\ fuzz_sigReceived' = fuzz_sigHandler(SIGALRM)
    /\ \E toMain \in BOOLEAN : mainPc' = PauseReturns(toMain)
    /\ pc' = [pc EXCEPT ![w] = "returned"]
    /\ wakeLost' = (wakeLost \/ (mainPc = "prepause"
                                  /\ hfuzz.threadsFinished >= hfuzz.threadsMax))
    /\ UNCHANGED <<hfuzz, fuzzer, fs, exitStatus, snapTorn, itersStarted, accepted,
                   hist, corpus, env, io>>

(***************************************************************************)
(* fuzz_prepareFileDynamically                                             *)
(***************************************************************************)
\* fuzz.c:115
DynLock(w) ==
    /\ Running /\ pc[w] = "prepare"
    /\ hfuzz.dynFileMethod # _HF_DYNFILE_NONE
    /\ MX_LOCK(w)
    /\ hfuzz' = [hfuzz EXCEPT !.dynamicFile_mutex = w]
    /\ pc' = [pc EXCEPT ![w] = "dyn_locked"]
    /\ UNCHANGED <<fuzzer, mainPc, fuzz_sigReceived, fs, exitStatus,
                   snapTorn, itersStarted, accepted, wakeLost, hist, corpus, env, io>>

\* the shared best is between the memcpy of an update and its assignments
BestMidUpdate == \E v \in Workers : pc[v] = "upd_assign"

\* fuzz.c:135-138: the copy of the best into the candidate, and the unlock
TakeSnapshot(w, best, bestSz) ==
    /\ fuzzer' = [fuzzer EXCEPT ![w].dynamicFileSz = bestSz,
                                ![w].dynamicFile = Prefix(best, bestSz),
                                ![w].firstPass = AllCntsZero(hfuzz.hwCnts)]
    /\ snapTorn' = [snapTorn EXCEPT ![w] = BestMidUpdate]
    /\ pc' = [pc EXCEPT ![w] = "dyn_mangle"]

\* one more iteration on the same best; the count stops at the budget
CountIteration(n) == IF n < hfuzz.dynFileIterExpire THEN n + 1 ELSE n

\* fuzz.c:117-138: seed the best from the corpus while no counter was ever
\* recorded, then copy it
DynSnapshot(w) ==
    /\ Running /\ pc[w] = "dyn_locked"
    /\ IF hfuzz.inputFile /\ AllCntsZero(hfuzz.hwCnts)
       THEN \E r \in files_readFileToBufMax(hfuzz.dynamicFileBest, hfuzz.maxFileSz) :
              IF ReadFailed(r[1])
              THEN /\ hfuzz' = [hfuzz EXCEPT !.dynamicFileBest = r[2],
                                             !.dynamicFile_mutex = MX_UNLOCK(w)]
                   /\ pc' = [pc EXCEPT ![w] = "prep_failed"]
                   /\ UNCHANGED <<fuzzer, snapTorn, hist>>
              ELSE /\ hfuzz' = [hfuzz EXCEPT !.dynamicFileBest = r[2],
                                             !.dynamicFileBestSz = r[1],
                                             !.dynamicFile_mutex = MX_UNLOCK(w)]
                   /\ TakeSnapshot(w, r[2], r[1])
                   /\ hist' = [hist EXCEPT !.seeded = TRUE, !.itersOnBest = 1]
       ELSE IF hfuzz.dynamicFileBestSz > hfuzz.maxFileSz
       THEN \* LOGMSG(l_FATAL, ...) ends the process
            /\ pc' = [pc EXCEPT ![w] = "fatal"]
            /\ UNCHANGED <<hfuzz, fuzzer, snapTorn, hist>>
       ELSE /\ hfuzz' = [hfuzz EXCEPT !.dynamicFile_mutex = MX_UNLOCK(w)]
            /\ TakeSnapshot(w, hfuzz.dynamicFileBest, hfuzz.dynamicFileBestSz)
            /\ hist' = [hist EXCEPT !.itersOnBest = CountIteration(@)]
    /\ UNCHANGED <<mainPc, fuzz_sigReceived, fs, exitStatus, itersStarted, accepted, wakeLost, corpus, env, io>>

\* What the read of hfuzz->hwCnts at fuzz.c:141-142, made without the lock,
\* can see: the counters as they are, or, while another worker is about to
\* assign them (fuzz.c:374-378), any mix of the old and the new fields.
UnlockedHwCnts(w) ==
    {hfuzz.hwCnts}
    \cup {c \in [Dims -> CntVals] :
            \E v \in Workers \ {w} :
               /\ pc[v] = "upd_assign"
               /\ \A d \in Dims : c[d] \in {hfuzz.hwCnts[d], fuzzer[v].hwCnts[d]}}

\* fuzz.c:141-167: mutate unless this is the first pass, then write the
\* candidate with O_WRONLY | O_CREAT | O_EXCL | O_TRUNC
DynMangleWrite(w) ==
    /\ Running /\ pc[w] = "dyn_mangle"
    /\ \E seen \in UnlockedHwCnts(w) :
       \E data \in (IF AnyCntPositive(seen) THEN Mangle(hfuzz.maxFileSz)
                                            ELSE {fuzzer[w].dynamicFile}) :
       \E name \in CandNames :
       \E r \in files_writeBufToFile(fs, name, data, CandidateExcl) :
          /\ fuzzer' = [fuzzer EXCEPT ![w].dynamicFile = data,
                                      ![w].dynamicFileSz = Len(data),
                                      ![w].fileName = name,
                                      ![w].created = r[1],
                                      ![w].firstPass = FALSE]
          /\ fs' = r[2]
          /\ pc' = [pc EXCEPT ![w] = IF r[1] THEN "fork" ELSE "prep_failed"]
    /\ UNCHANGED <<hfuzz, mainPc, fuzz_sigReceived, exitStatus,
                   snapTorn, itersStarted, accepted, wakeLost, hist, corpus, env, io>>


(***************************************************************************)
(* fuzz_prepareFile and fuzz_prepareFileExternally                         *)
(***************************************************************************)
\* fuzz.c:170-199: read the seed, resize and mangle it, write the candidate
\* with O_WRONLY | O_CREAT | O_EXCL
PlainPrepare(w) ==
    /\ Running /\ pc[w] = "prepare"
    /\ hfuzz.dynFileMethod = _HF_DYNFILE_NONE /\ ~hfuzz.externalCommand
    /\ \E rd \in files_readFileToBufMax([i \in 1..hfuzz.maxFileSz |-> 0], hfuzz.maxFileSz) :
         IF ReadFailed(rd[1])
         THEN /\ pc' = [pc EXCEPT ![w] = "prep_failed"]
              /\ UNCHANGED <<fuzzer, fs>>
         ELSE \E data \in Mangle(hfuzz.maxFileSz) :
              \E name \in CandNames :
              \E r \in files_writeBufToFile(fs, name, data, CandidateExcl) :
                 /\ fuzzer' = [fuzzer EXCEPT ![w].dynamicFile = data,
                                             ![w].dynamicFileSz = Len(data),
                                             ![w].fileName = name,
                                             ![w].created = r[1]]
                 /\ fs' = r[2]
                 /\ pc' = [pc EXCEPT ![w] = IF r[1] THEN "fork" ELSE "prep_failed"]
    /\ UNCHANGED <<hfuzz, mainPc, fuzz_sigReceived, exitStatus, snapTorn, itersStarted, accepted, wakeLost, hist, corpus, env, io>>

\* fuzz.c:203-231: create the candidate with O_CREAT | O_EXCL | O_RDWR and,
\* with an input corpus, copy the seed into it
ExtCreate(w) ==
    /\ Running /\ pc[w] = "prepare"
    /\ hfuzz.dynFileMethod = _HF_DYNFILE_NONE /\ hfuzz.externalCommand
    /\ \E name \in CandNames :
       \/ \* open() fails: the path exists, or any other error
          /\ pc' = [pc EXCEPT ![w] = "prep_failed"]
          /\ fuzzer' = [fuzzer EXCEPT ![w].fileName = name]
          /\ UNCHANGED fs
       \/ /\ ~fs[name].exists
          /\ IF hfuzz.inputFile
             THEN \E rd \in files_readFileToBufMax([i \in 1..hfuzz.maxFileSz |-> 0],
                                                   hfuzz.maxFileSz) :
                    \/ \* the seed cannot be read, or files_writeToFd fails:
                       \* unlink(fuzzer->fileName); return false
                       /\ pc' = [pc EXCEPT ![w] = "prep_failed"]
                       /\ fuzzer' = [fuzzer EXCEPT ![w].fileName = name]
                       /\ UNCHANGED fs
                    \/ /\ ~ReadFailed(rd[1])
                       /\ fuzzer' = [fuzzer EXCEPT ![w].dynamicFile = Prefix(rd[2], rd[1]),
                                                   ![w].fileName = name,
                                                   ![w].created = TRUE]
                       /\ fs' = [fs EXCEPT ![name] = File(Prefix(rd[2], rd[1]))]
                       /\ pc' = [pc EXCEPT ![w] = "ext_fork"]
             ELSE /\ fs' = [fs EXCEPT ![name] = File(<<>>)]
                  /\ pc' = [pc EXCEPT ![w] = "ext_fork"]
                  /\ fuzzer' = [fuzzer EXCEPT ![w].fileName = name,
                                              ![w].created = TRUE]
    /\ UNCHANGED <<hfuzz, mainPc, fuzz_sigReceived, exitStatus, snapTorn, itersStarted, accepted, wakeLost, hist, corpus, env, io>>

\* fuzz.c:233-246: fork the external command
ExtFork(w) ==
    /\ Running /\ pc[w] = "ext_fork"
    /\ \/ pc' = [pc EXCEPT ![w] = "prep_failed"]    \* pid == -1: return false
       \/ pc' = [pc EXCEPT ![w] = "ext_wait"]
    /\ UNCHANGED <<hfuzz, fuzzer, mainPc, fuzz_sigReceived, fs, exitStatus,
                   snapTorn, itersStarted, accepted, wakeLost, hist, corpus, env, io>>

\* how the external command can end: WIFEXITED with a status, or WIFSIGNALED
ChildStatus == {"exited_0", "exited_nonzero", "signaled"}

\* fuzz.c:257-266: the value fuzz_prepareFileExternally returns for a status
ExternalResult(childStatus) ==
    IF childStatus \in {"exited_0", "exited_nonzero"} THEN TRUE ELSE FALSE

\* fuzz.c:256-266: wait for the command, which has rewritten the file
ExtWait(w) ==
    /\ Running /\ pc[w] = "ext_wait"
    /\ \E childStatus \in ChildStatus :
       \E data \in Contents(hfuzz.maxFileSz) \cup {fs[fuzzer[w].fileName].data} :
          /\ fs' = [fs EXCEPT ![fuzzer[w].fileName] = File(data)]
          /\ fuzzer' = [fuzzer EXCEPT ![w].childStatus = childStatus]
          /\ pc' = [pc EXCEPT ![w] = IF ExternalResult(childStatus)
                                     THEN "fork" ELSE "prep_failed"]
    /\ UNCHANGED <<hfuzz, mainPc, fuzz_sigReceived, exitStatus,
                   snapTorn, itersStarted, accepted, wakeLost, hist, corpus, env, io>>

\* a loop that goes on to the next iteration after a failed preparation
PrepFailed_Continue(w) ==
    /\ pc' = [pc EXCEPT ![w] = "thread"]
    /\ exitStatus' = exitStatus

\* fuzz.c:299-311: what fuzz_fuzzLoop does when the preparation of its mode
\* returned false: exit(EXIT_FAILURE)
PrepFailed(w) ==
    /\ pc' = [pc EXCEPT ![w] = "exited"]
    /\ exitStatus' = "EXIT_FAILURE"

\* fuzz.c:301, 305, 309 (after a failed preparation) and 131, 322-323 (after
\* a fatal error): the worker ends the process
ExitFailure(w) ==
    /\ Running /\ pc[w] \in {"prep_failed", "fatal"}
    /\ IF pc[w] = "prep_failed"
       THEN PrepFailed(w)
       ELSE /\ pc' = [pc EXCEPT ![w] = "exited"]
            /\ exitStatus' = "EXIT_FAILURE"
    /\ UNCHANGED <<hfuzz, fuzzer, mainPc, fuzz_sigReceived, fs, snapTorn, itersStarted, accepted, wakeLost, hist, corpus, env, io>>

(***************************************************************************)
(* fuzz_fuzzLoop after the preparation                                     *)
(***************************************************************************)
\* fuzz.c:393-396 and 410: report, free(fuzzer.dynamicFile), return to the
\* loop of fuzz_threadNew; the fuzzer_t of the iteration is gone
EndIteration(w) ==
    /\ pc' = [pc EXCEPT ![w] = "thread"]
    /\ fuzzer' = [fuzzer EXCEPT ![w] = NoFuzzer]

\* fuzz.c:326-334: what the forked child does when arch_launchChild returns
\* false: exit(EXIT_FAILURE), a normal exit with status 1
ChildOnLaunchFailure == "exit_failure"

\* fuzz.c:313-337: fork the target
Fork(w) ==
    /\ Running /\ pc[w] = "fork"
    /\ \/ \* pid == -1: l_FATAL, exit
          /\ pc' = [pc EXCEPT ![w] = "fatal"]
          /\ fuzzer' = [fuzzer EXCEPT ![w].childStatus = "none"]
       \/ \* in the child arch_launchChild runs the target, or returns false
          \E launched \in BOOLEAN :
            /\ pc' = [pc EXCEPT ![w] = "reap"]
            /\ fuzzer' = [fuzzer EXCEPT
                            ![w].childStatus = "none",
                            ![w].child = IF launched THEN "target"
                                                     ELSE ChildOnLaunchFailure]
    /\ UNCHANGED <<hfuzz, mainPc, fuzz_sigReceived, fs, exitStatus,
                   snapTorn, itersStarted, accepted, wakeLost, hist, corpus, env, io>>

\* an update step that is made in every mode
FeedbackOn_Always == TRUE

\* fuzz.c:342: if (hfuzz->dynFileMethod != _HF_DYNFILE_NONE)
FeedbackOn == hfuzz.dynFileMethod # _HF_DYNFILE_NONE

\* fuzz.c:339-340 and, outside dynamic mode, fuzz.c:393-394: reap the child,
\* which fills the counters, and unlink the candidate
Reap(w) ==
    /\ Running /\ pc[w] = "reap"
    /\ fs' = [fs EXCEPT ![fuzzer[w].fileName] = NoFile]
    /\ IF FeedbackOn
       THEN /\ \E cnts \in RunCnts(hfuzz.dynFileMethod) :
                 fuzzer' = [fuzzer EXCEPT ![w].hwCnts = cnts,
                                          ![w].created = FALSE,
                                          ![w].child = "none"]
            /\ pc' = [pc EXCEPT ![w] = "update"]
       ELSE EndIteration(w)
    /\ UNCHANGED <<hfuzz, mainPc, fuzz_sigReceived, exitStatus, snapTorn, itersStarted, accepted, wakeLost, hist, corpus, env, io>>

\* fuzz.c:343-352: the debug message (which reads the best without the
\* lock), then MX_LOCK
UpdLock(w) ==
    /\ Running /\ pc[w] = "update"
    /\ MX_LOCK(w)
    /\ hfuzz' = [hfuzz EXCEPT !.dynamicFile_mutex = w]
    /\ pc' = [pc EXCEPT ![w] = "upd_cmp"]
    /\ UNCHANGED <<fuzzer, mainPc, fuzz_sigReceived, fs, exitStatus, snapTorn, itersStarted, accepted, wakeLost, hist, corpus, env, io>>

\* fuzz.c:354-371 and 390-394: compare; on acceptance copy the bytes, else
\* unlock and end the iteration
UpdCompare(w) ==
    /\ Running /\ pc[w] = "upd_cmp"
    /\ IF AcceptsCandidate(hfuzz.hwCnts, fuzzer[w].hwCnts)
       THEN /\ hfuzz' = [hfuzz EXCEPT !.dynamicFileBest =
                           Memcpy(@, fuzzer[w].dynamicFile, fuzzer[w].dynamicFileSz)]
            /\ pc' = [pc EXCEPT ![w] = "upd_assign"]
            /\ accepted' = accepted \cup {fuzzer[w].dynamicFile}
            /\ hist' = [hist EXCEPT !.itersOnBest = 0]
            /\ UNCHANGED fuzzer
       ELSE /\ hfuzz' = [hfuzz EXCEPT !.dynamicFile_mutex = NoOwner]
            /\ EndIteration(w)
            /\ UNCHANGED <<accepted, hist>>
    /\ UNCHANGED <<mainPc, fuzz_sigReceived, fs, exitStatus, snapTorn, itersStarted, wakeLost, corpus, env, io>>

\* fuzz.c:373-378
UpdAssign(w) ==
    /\ Running /\ pc[w] = "upd_assign"
    /\ hfuzz' = [hfuzz EXCEPT !.dynamicFileBestSz = fuzzer[w].dynamicFileSz,
                              !.hwCnts = fuzzer[w].hwCnts]
    /\ pc' = [pc EXCEPT ![w] = "upd_open"]
    /\ hist' = [hist EXCEPT !.everPositive = @ \/ AnyCntPositive(fuzzer[w].hwCnts)]
    /\ UNCHANGED <<fuzzer, mainPc, fuzz_sigReceived, fs, exitStatus, snapTorn, itersStarted, accepted, wakeLost, corpus, env, io>>

\* an update that writes CURRENT_BEST in place
currentBestTmp_InPlace == CURRENT_BEST

\* the path the new best is first written to (fuzz.c:382, 385)
currentBestTmp == TMP_CURRENT_BEST

\* files.c:77-81 for fuzz.c:384-386: open(currentBestTmp, O_WRONLY | O_CREAT
\* | O_TRUNC); when it fails the update ends (fuzz.c:390-394)
UpdOpenTmp(w) ==
    /\ Running /\ pc[w] = "upd_open"
    /\ \/ /\ fs' = [fs EXCEPT ![currentBestTmp] = File(<<>>)]
          /\ pc' = [pc EXCEPT ![w] = "upd_write"]
          /\ UNCHANGED <<hfuzz, fuzzer>>
       \/ /\ hfuzz' = [hfuzz EXCEPT !.dynamicFile_mutex = NoOwner]
          /\ EndIteration(w)
          /\ UNCHANGED fs
    /\ UNCHANGED <<mainPc, fuzz_sigReceived, exitStatus, snapTorn, itersStarted, accepted, wakeLost, hist, corpus, env, io>>

\* files.c:83-93 and 96-110: one write() of files_writeToFd, which writes
\* some of the remaining bytes or fails; a failure unlinks the file
UpdWriteTmp(w) ==
    /\ Running /\ pc[w] = "upd_write"
    /\ LET writtenSz == Len(fs[currentBestTmp].data)
           fileSz == fuzzer[w].dynamicFileSz
       IN \/ /\ writtenSz < fileSz
             /\ \E sz \in 1..(fileSz - writtenSz) :
                  fs' = [fs EXCEPT ![currentBestTmp] =
                           File(Prefix(fuzzer[w].dynamicFile, writtenSz + sz))]
             /\ UNCHANGED <<hfuzz, pc, fuzzer>>
          \/ /\ writtenSz < fileSz
             /\ fs' = [fs EXCEPT ![currentBestTmp] = NoFile]
             /\ hfuzz' = [hfuzz EXCEPT !.dynamicFile_mutex = NoOwner]
             /\ EndIteration(w)
          \/ /\ writtenSz >= fileSz
             /\ pc' = [pc EXCEPT ![w] = "upd_rename"]
             /\ UNCHANGED <<hfuzz, fs, fuzzer>>
    /\ UNCHANGED <<mainPc, fuzz_sigReceived, exitStatus, snapTorn, itersStarted, accepted, wakeLost, hist, corpus, env, io>>

\* fuzz.c:387-394: rename(currentBestTmp, currentBest), unlock, end of the
\* iteration
UpdRename(w) ==
    /\ Running /\ pc[w] = "upd_rename"
    /\ fs' = [fs EXCEPT ![currentBestTmp] = NoFile,
                        ![CURRENT_BEST] = fs[currentBestTmp]]
    /\ hfuzz' = [hfuzz EXCEPT !.dynamicFile_mutex = NoOwner]
    /\ EndIteration(w)
    /\ UNCHANGED <<mainPc, fuzz_sigReceived, exitStatus, snapTorn, itersStarted, accepted, wakeLost, hist, corpus, env, io>>


(***************************************************************************)
(* cmdlineParse and fuzz_main                                              *)
(***************************************************************************)
\* a configuration that never checks the initial size
InitialSizeTooLarge_Unchecked == FALSE

\* cmdline.c:433: the initial best size must fit into maxFileSz
InitialSizeTooLarge == hfuzz.dynamicFileBestSz > hfuzz.maxFileSz

\* strstr(haystack, needle) != NULL, compared as whole strings
strstr_WholeString(haystack, needle) == haystack = needle

\* strstr(haystack, needle) != NULL: needle occurs in haystack at some offset
strstr(haystack, needle) ==
    \E i \in 0..(Len(haystack) - Len(needle)) :
       \A j \in 1..Len(needle) : haystack[i + j] = needle[j]

\* cmdline.c:45-52
checkFor_FILE_PLACEHOLDER(args) ==
    \E x \in 1..Len(args) : strstr(args[x], _HF_FILE_PLACEHOLDER)

\* cmdline.c:427: hfuzz->cmdline[0] == NULL
NoCommand == hfuzz.cmdline = <<>>

\* cmdline.c:444: neither stdin mode nor a placeholder
PlaceholderMissing == ~hfuzz.fuzzStdin /\ ~checkFor_FILE_PLACEHOLDER(hfuzz.cmdline)

\* cmdline.c:450, 456: sanitizer coverage with perf feedback, or with a
\* timeout under 15 seconds
SanCovRejected ==
    hfuzz.useSanCov /\ (hfuzz.dynFileMethod # _HF_DYNFILE_NONE \/ hfuzz.tmOut < 15)

\* cmdline.c:461: strchr(hfuzz->fileExtn, '/')
ExtnHasSlash == \E i \in 1..Len(hfuzz.fileExtn) : hfuzz.fileExtn[i] = "/"

\* files.c:133-136 for hfuzz->workDir: access(fileName, F_OK) != -1
files_exists_workDir == env.workDirExists

\* cmdline.c:466: the paths whose existence is looked at
WorkDirChecked == hfuzz.workDir = <<>> \/ hfuzz.workDir[1] # "." \/ Len(hfuzz.workDir) > 2

\* cmdline.c:466-471
WorkDirMissing == WorkDirChecked /\ ~files_exists_workDir

\* cmdline.c:473: hfuzz->pid > 0 || hfuzz->pidFile
AttachesToPid == hfuzz.pid > 0 \/ hfuzz.pidFile

\* the options without an argument that set a flag of hfuzz (cmdline.c:292-311)
FlagOptions == {"q", "v", "V", "M", "S", "s", "u"}

\* the command lines made of such options
FlagArgvs == UNION {[1..n -> FlagOptions] : n \in 0..MaxOpts}

\* cmdline.c:292-311: the switch on the option c that getopt_long returned;
\* case 'M' has no break and goes on into case 'S'
OptionCase(h, c) ==
    CASE c = "q" -> [h EXCEPT !.nullifyStdio = TRUE]
      [] c = "v" -> [h EXCEPT !.useScreen = FALSE]
      [] c = "V" -> [h EXCEPT !.useVerifier = TRUE]
      [] c = "M" -> [h EXCEPT !.saveMaps = TRUE, !.useSimplifier = TRUE]
      [] c = "S" -> [h EXCEPT !.useSimplifier = TRUE]
      [] c = "s" -> [h EXCEPT !.fuzzStdin = TRUE]
      [] c = "u" -> [h EXCEPT !.saveUnique = FALSE]

\* cmdline.c:277-311: one pass of the option loop: getopt_long returns the
\* next option, and the switch handles it
CmdlineOption ==
    /\ Running /\ mainPc = "cmdlineParse"
    /\ env.opts # <<>>
    /\ hfuzz' = OptionCase(hfuzz, Head(env.opts))
    /\ env' = [env EXCEPT !.opts = Tail(@)]
    /\ UNCHANGED <<fuzzer, pc, mainPc, fuzz_sigReceived, fs, exitStatus, snapTorn,
                   itersStarted, accepted, wakeLost, hist, corpus, io>>

\* cmdline.c:426-476: reject a missing command and a too large initial
\* size, allocate the best buffer (malloc: its bytes are indeterminate),
\* reject a command without placeholder outside stdin mode, a bad use of
\* sanitizer coverage, a bad extension and a missing workspace, and lower
\* threadsMax to 1 when attaching.  A false return of cmdlineParse ends the
\* process with a failure status.
CmdlineParse ==
    /\ Running /\ mainPc = "cmdlineParse"
    /\ env.opts = <<>>
    /\ IF \/ NoCommand
          \/ InitialSizeTooLarge
          \/ PlaceholderMissing
          \/ SanCovRejected
          \/ ExtnHasSlash
          \/ WorkDirMissing
       THEN /\ exitStatus' = "EXIT_FAILURE"
            /\ UNCHANGED <<hfuzz, mainPc>>
       ELSE /\ \E buf \in Buffers(hfuzz.maxFileSz) :
                 hfuzz' = [hfuzz EXCEPT !.dynamicFileBest = buf,
                                        !.threadsMax = IF AttachesToPid THEN 1 ELSE @]
            /\ mainPc' = "fuzz_main"
            /\ UNCHANGED exitStatus
    /\ UNCHANGED <<fuzzer, pc, fuzz_sigReceived, fs, snapTorn, itersStarted, accepted, wakeLost, hist, corpus, env, io>>

\* fuzz.c:446-473: install the handlers, start the timer, start threadsMax
\* threads
FuzzMainStart ==
    /\ Running /\ mainPc = "fuzz_main"
    /\ pc' = [w \in AllWorkers |-> IF w \in Workers THEN "thread" ELSE "none"]
    /\ mainPc' = "check"
    /\ UNCHANGED <<hfuzz, fuzzer, fuzz_sigReceived, fs, exitStatus, snapTorn, itersStarted, accepted, wakeLost, hist, corpus, env, io>>

\* fuzz.c:479-484: the two conditions that end the wait loop
MainLoopBreaks ==
    \/ fuzz_sigReceived > 0
    \/ hfuzz.threadsFinished >= hfuzz.threadsMax

\* fuzz.c:475-484: one pass of the wait loop up to the call of pause()
MainCheck ==
    /\ Running /\ mainPc = "check"
    /\ mainPc' = IF MainLoopBreaks THEN "shutdown" ELSE "prepause"
    /\ UNCHANGED <<hfuzz, fuzzer, pc, fuzz_sigReceived, fs, exitStatus, snapTorn, itersStarted, accepted, wakeLost, hist, corpus, env, io>>

\* fuzz.c:485: the main thread enters pause()
MainPause ==
    /\ Running /\ mainPc = "prepause"
    /\ mainPc' = "paused"
    /\ UNCHANGED <<hfuzz, fuzzer, pc, fuzz_sigReceived, fs, exitStatus, snapTorn, itersStarted, accepted, wakeLost, hist, corpus, env, io>>

\* fuzz.c:488-495: free the global buffers and _exit(EXIT_SUCCESS)
MainShutdown ==
    /\ Running /\ mainPc = "shutdown"
    /\ mainPc' = "exited"
    /\ exitStatus' = "EXIT_SUCCESS"
    /\ UNCHANGED <<hfuzz, fuzzer, pc, fuzz_sigReceived, fs, snapTorn, itersStarted, accepted, wakeLost, hist, corpus, env, io>>

\* the threads are running: signals are handled by fuzz_sigHandler
HandlersInstalled == mainPc \in {"check", "prepause", "paused", "shutdown"}

\* SIGINT, SIGTERM or SIGQUIT is sent to the process
Signal(sig) ==
    /\ Running /\ HandlersInstalled
    /\ fuzz_sigReceived' = fuzz_sigHandler(sig)
    /\ \E toMain \in BOOLEAN : mainPc' = PauseReturns(toMain)
    /\ UNCHANGED <<hfuzz, fuzzer, pc, fs, exitStatus, snapTorn, itersStarted, accepted, wakeLost, hist, corpus, env, io>>

\* a timer without it_interval: it fired once, before the first pause()
TimerWakesMain_OneShot == mainPc

\* fuzz.c:431-442: the interval timer of fuzz_setupTimer fires (it_interval
\* of one second: again and again); SIGALRM reaches the main thread
TimerWakesMain == PauseReturns(TRUE)

TimerTick ==
    /\ Running /\ HandlersInstalled
    /\ mainPc = "paused"
    /\ fuzz_sigReceived' = fuzz_sigHandler(SIGALRM)
    /\ mainPc' = TimerWakesMain
    /\ UNCHANGED <<hfuzz, fuzzer, pc, fs, exitStatus, snapTorn, itersStarted, accepted, wakeLost, hist, corpus, env, io>>


(***************************************************************************)
(* Specifications.                                                         *)
(***************************************************************************)
\* The feedback store: dynamic mode with two feedback methods (-Di and a
\* custom counter), with and without an input corpus.
InitDyn ==
    /\ \E inputFile \in BOOLEAN, maxFileSz \in {0, MaxFileSzBound},
          threadsMax \in 1..MaxThreads :
         hfuzz = Config(inputFile, FALSE, maxFileSz, threadsMax,
                        MaxMutations, _HF_DYNFILE_INSTR_COUNT \cup _HF_DYNFILE_CUSTOM)
    /\ InitRest

NextDyn ==
    \/ CmdlineParse
    \/ FuzzMainStart
    \/ \E w \in Workers : ThreadNew(w)
    \/ \E w \in Workers : ThreadFinish(w)
    \/ \E w \in Workers : ThreadWake(w)
    \/ \E w \in Workers : DynLock(w)
    \/ \E w \in Workers : DynSnapshot(w)
    \/ \E w \in Workers : DynMangleWrite(w)
    \/ \E w \in Workers : Fork(w)
    \/ \E w \in Workers : Reap(w)
    \/ \E w \in Workers : UpdLock(w)
    \/ \E w \in Workers : UpdCompare(w)
    \/ \E w \in Workers : UpdAssign(w)
    \/ \E w \in Workers : UpdOpenTmp(w)
    \/ \E w \in Workers : UpdWriteTmp(w)
    \/ \E w \in Workers : UpdRename(w)
    \/ \E w \in Workers : ExitFailure(w)

SpecDyn == InitDyn /\ [][NextDyn]_vars

\* Seeding and expiry: one worker in dynamic mode with an input corpus and
\* one feedback method, for one iteration more than the budget needs.
InitSeed ==
    /\ hfuzz = Config(TRUE, FALSE, 1, 1, MaxMutations + 1, _HF_DYNFILE_INSTR_COUNT)
    /\ InitRest

SpecSeed == InitSeed /\ [][NextDyn]_vars

\* The three preparation modes side by side, without the main loop.
InitModes ==
    /\ \E mode \in {"dynamic", "plain", "external"}, inputFile \in BOOLEAN,
          threadsMax \in 1..MaxThreads :
         /\ mode = "plain" => inputFile
         /\ hfuzz = Config(inputFile, mode = "external", MaxFileSzBound, threadsMax,
                           MaxMutations,
                           IF mode = "dynamic" THEN _HF_DYNFILE_INSTR_COUNT
                                               ELSE _HF_DYNFILE_NONE)
    /\ InitRest

NextModes ==
    \/ CmdlineParse
    \/ FuzzMainStart
    \/ \E w \in Workers : ThreadNew(w)
    \/ \E w \in Workers : ThreadFinish(w)
    \/ \E w \in Workers : ThreadWake(w)
    \/ \E w \in Workers : DynLock(w)
    \/ \E w \in Workers : DynSnapshot(w)
    \/ \E w \in Workers : DynMangleWrite(w)
    \/ \E w \in Workers : PlainPrepare(w)
    \/ \E w \in Workers : ExtCreate(w)
    \/ \E w \in Workers : ExtFork(w)
    \/ \E w \in Workers : ExtWait(w)
    \/ \E w \in Workers : Fork(w)
    \/ \E w \in Workers : Reap(w)
    \/ \E w \in Workers : UpdLock(w)
    \/ \E w \in Workers : UpdCompare(w)
    \/ \E w \in Workers : UpdAssign(w)
    \/ \E w \in Workers : UpdOpenTmp(w)
    \/ \E w \in Workers : UpdWriteTmp(w)
    \/ \E w \in Workers : UpdRename(w)
    \/ \E w \in Workers : ExitFailure(w)

SpecModes == InitModes /\ [][NextModes]_vars

(***************************************************************************)
(* files_init and files_readdir                                            *)
(***************************************************************************)
\* what stat() tells about a child of the input directory: a regular file
\* of some size, something that is not a regular file, or nothing (stat()
\* returns -1, as for a dangling symbolic link)
Entries ==
    [kind : {"reg"}, size : 0..MaxFileSzBound]
    \cup {[kind |-> "dir", size |-> 0], [kind |-> "dangling", size |-> 0]}

\* the directories of at most MaxEntries children
Dirs == UNION {[S -> Entries] : S \in SUBSET (1..MaxEntries)}

\* a size test with >= in place of >
TooBig_OffByOne(size) == size >= hfuzz.maxFileSz

\* files.c:200, 268: st.st_size > (off_t) hfuzz->maxFileSz
TooBig(size) == size > hfuzz.maxFileSz

\* files_init and files_readdir return
Return(ret, error) == [corpus EXCEPT !.pc = "done", !.ret = ret, !.error = error]

\* files.c:226-277: files_init up to its return or to the loop of
\* files_readdir (files.c:155-159: opendir)
FilesInit ==
    /\ corpus.pc = "files_init"
    /\ IF hfuzz.dynFileMethod # _HF_DYNFILE_NONE /\ ~hfuzz.inputFile
       THEN corpus' = [Return(TRUE, FALSE) EXCEPT !.files = <<"DYNAMIC_FILE">>, !.fileCnt = 1]
       ELSE IF hfuzz.externalCommand /\ ~hfuzz.inputFile
       THEN corpus' = [Return(TRUE, FALSE) EXCEPT !.files = <<"CREATED">>, !.fileCnt = 1]
       ELSE IF ~hfuzz.inputFile \/ corpus.input = "nostat"
       THEN corpus' = Return(FALSE, FALSE)
       ELSE IF corpus.input = "dir"
       THEN \/ corpus' = Return(FALSE, TRUE)              \* opendir fails
            \/ corpus' = [corpus EXCEPT !.pc = "readdir"]
       ELSE IF corpus.input # "reg" \/ TooBig(corpus.inputSize)
       THEN corpus' = Return(FALSE, FALSE)
       ELSE corpus' = [Return(TRUE, FALSE) EXCEPT !.files = <<"inputFile">>, !.fileCnt = 1]
    /\ UNCHANGED <<hfuzz, fuzzer, pc, mainPc, fuzz_sigReceived, fs, exitStatus,
                   snapTorn, itersStarted, accepted, wakeLost, hist, env, io>>

\* files.c:162-168: readdir_r fails
ReaddirError ==
    /\ corpus.pc = "readdir"
    /\ corpus' = Return(FALSE, TRUE)
    /\ UNCHANGED <<hfuzz, fuzzer, pc, mainPc, fuzz_sigReceived, fs, exitStatus,
                   snapTorn, itersStarted, accepted, wakeLost, hist, env, io>>

\* an end of the directory that succeeds without a file
DirHasFiles_Always(count) == TRUE

\* files.c:170, 176: res == NULL && count > 0, res == NULL && count == 0
DirHasFiles(count) == count > 0

\* files.c:170-180: readdir_r returns no further entry
ReaddirEnd ==
    /\ corpus.pc = "readdir" /\ corpus.left = {}
    /\ corpus' = Return(DirHasFiles(Len(corpus.files)), FALSE)
    /\ UNCHANGED <<hfuzz, fuzzer, pc, mainPc, fuzz_sigReceived, fs, exitStatus,
                   snapTorn, itersStarted, accepted, wakeLost, hist, env, io>>

\* files.c:182-219: one pass of the loop over an entry, in the order
\* readdir_r happens to return them
ReaddirEntry ==
    /\ corpus.pc = "readdir"
    /\ \E n \in corpus.left :
         LET st == corpus.dir[n]
             rest == [corpus EXCEPT !.left = @ \ {n}]
         IN  IF \/ st.kind = "dangling"            \* stat(path, &st) == -1
                \/ st.kind # "reg"                 \* !S_ISREG(st.st_mode)
                \/ st.size = 0
                \/ TooBig(st.size)
             THEN corpus' = rest
             ELSE \/ corpus' = [rest EXCEPT !.files = Append(@, n),
                                            !.fileCnt = Len(corpus.files) + 1]
                  \/ \* realloc or strdup fails
                     corpus' = [rest EXCEPT !.pc = "done", !.ret = FALSE, !.error = TRUE]
    /\ UNCHANGED <<hfuzz, fuzzer, pc, mainPc, fuzz_sigReceived, fs, exitStatus,
                   snapTorn, itersStarted, accepted, wakeLost, hist, env, io>>

\* The corpus: every configuration of modes over every input path.
InitCorpus ==
    /\ \E inputFile \in BOOLEAN, externalCommand \in BOOLEAN,
          method \in {_HF_DYNFILE_NONE, _HF_DYNFILE_INSTR_COUNT} :
         hfuzz = Config(inputFile, externalCommand, 1, 1, MaxMutations, method)
    /\ InitProcess
    /\ env = DefaultEnv
    /\ io = NoCall
    /\ \E input \in {"nostat", "dir", "reg", "other"}, inputSize \in 0..MaxFileSzBound,
          dir \in Dirs :
         /\ input # "reg" => inputSize = 0
         /\ input # "dir" => dir = <<>>
         /\ corpus = [input |-> IF hfuzz.inputFile THEN input ELSE "none",
                      inputSize |-> inputSize, dir |-> dir, left |-> DOMAIN dir,
                      files |-> <<>>, fileCnt |-> 0, pc |-> "files_init",
                      ret |-> FALSE, error |-> FALSE]

NextCorpus ==
    \/ FilesInit
    \/ ReaddirEntry
    \/ ReaddirEnd
    \/ ReaddirError

SpecCorpus == InitCorpus /\ [][NextCorpus]_vars

(***************************************************************************)
(* The helpers of files.c: files_writeToFd, files_writeBufToFile,          *)
(* files_readFromFd, files_readFileToBufMax and files_copyFile, one system *)
(* call per step.                                                          *)
(***************************************************************************)
\* the byte strings of at most MaxIoLen bytes, the empty one included
IoData == {<<>>} \cup Contents(MaxIoLen)

\* what a path can hold: nothing, or a file of some content
IoFiles == {NoFile} \cup {File(d) : d \in IoData}

\* the flags the callers of files_writeBufToFile pass besides O_WRONLY |
\* O_CREAT (fuzz.c:162, 193, 386)
WriteFlags == {{"O_EXCL", "O_TRUNC"}, {"O_EXCL"}, {"O_TRUNC"}}

\* a helper call at its first step
Call(op, pos, flags, src, dst, buf, fileSz) ==
    [op |-> op, pc |-> pos, flags |-> flags, src |-> src, dst |-> dst, dst0 |-> dst,
     buf |-> buf, fileSz |-> fileSz, done |-> 0, out |-> <<>>, eintr |-> 0,
     shortIo |-> FALSE, ok |-> FALSE, failed |-> "none", ret |-> FALSE, retSz |-> 0,
     dstExists |-> FALSE, eofReads |-> 0]

\* the helper returns
IoReturn(call, ret, retSz) == [call EXCEPT !.pc = "done", !.ret = ret, !.retSz = retSz]

\* a write() that sends the start of the buffer again
WriteChunk_FromStart(buf, writtenSz, sz) == SubSeq(buf, 1, sz)

\* files.c:100: write(fd, &buf[writtenSz], ...) accepting sz bytes
WriteChunk(buf, writtenSz, sz) == SubSeq(buf, writtenSz + 1, writtenSz + sz)

\* a read() that stores at the start of the buffer again
ReadChunk_AtStart(buf, readSz, bytes) ==
    [i \in DOMAIN buf |-> IF i <= Len(bytes) THEN bytes[i] ELSE buf[i]]

\* files.c:121: read(fd, &buf[readSz], ...) returning bytes
ReadChunk(buf, readSz, bytes) ==
    [i \in DOMAIN buf |->
        IF readSz < i /\ i <= readSz + Len(bytes) THEN bytes[i - readSz] ELSE buf[i]]

\* a failure path without the unlink
unlink_Skipped(file) == file

\* files.c:86, 397: unlink(fileName)
unlink(file) == NoFile

\* an open of the destination without O_EXCL
dstOpenFlags_NoExcl == {"O_TRUNC"}

\* files.c:348: dstOpenFlags = O_CREAT | O_WRONLY | O_EXCL
dstOpenFlags == {"O_EXCL"}

\* the descriptor the write loop of the call writes to is the file dst
WritesDst == io.op \in {"files_writeBufToFile", "files_copyFile"}

\* the other variables
NotIo == <<hfuzz, fuzzer, pc, mainPc, fuzz_sigReceived, fs, exitStatus,
           snapTorn, itersStarted, accepted, wakeLost, hist, corpus, env>>

\* files.c:96-110: one pass of the loop of files_writeToFd: the loop ends,
\* or write() accepts some of the remaining bytes, is interrupted, or fails
files_writeToFd ==
    /\ io.op # "none" /\ io.pc = "write"
    /\ IF io.done >= io.fileSz
       THEN io' = [io EXCEPT !.pc = "written", !.ok = TRUE]
       ELSE \/ \E sz \in 1..(io.fileSz - io.done) :
                 LET out == io.out \o WriteChunk(io.buf, io.done, sz)
                 IN  io' = [io EXCEPT !.done = @ + sz,
                                      !.out = out,
                                      !.shortIo = @ \/ sz < io.fileSz - io.done,
                                      !.dst = IF WritesDst THEN File(out) ELSE @]
            \/ /\ io.eintr < MaxEintr
               /\ io' = [io EXCEPT !.eintr = @ + 1]
            \/ io' = [io EXCEPT !.pc = "written", !.ok = FALSE, !.failed = "write"]
    /\ UNCHANGED NotIo

\* the return of files_writeToFd to its caller: files.c:83-93 in
\* files_writeBufToFile, files.c:391-404 in files_copyFile
WriteReturn ==
    /\ io.op # "none" /\ io.pc = "written"
    /\ IF io.op = "files_writeToFd"
       THEN io' = IoReturn(io, io.ok, 0)
       ELSE IF io.ok
       THEN io' = IoReturn(io, TRUE, 0)
       ELSE io' = [IoReturn(io, FALSE, 0) EXCEPT !.dst = unlink(@)]
    /\ UNCHANGED NotIo

\* files.c:77-81: open(fileName, flags, 0644)
WriteBufOpen ==
    /\ io.op = "files_writeBufToFile" /\ io.pc = "open"
    /\ \/ io' = [IoReturn(io, FALSE, 0) EXCEPT !.failed = "open"]
       \/ /\ ~("O_EXCL" \in io.flags /\ io.dst.exists)
          /\ io' = [io EXCEPT !.pc = "write", !.dst = File(<<>>)]
    /\ UNCHANGED NotIo

\* the callers of files_readFileToBufMax pass the capacity of buf as
\* fileMaxSz (fuzz.c:120, 173, 213)
FileMaxSz == Len(io.buf)

\* files.c:44-61: open, fstat and the test of the size
ReadOpen ==
    /\ io.op = "files_readFileToBufMax" /\ io.pc = "open"
    /\ \/ io' = [IoReturn(io, FALSE, 0) EXCEPT !.failed = "open"]
       \/ /\ io.src.exists
          /\ \/ io' = [IoReturn(io, FALSE, 0) EXCEPT !.failed = "fstat"]
             \/ IF Len(io.src.data) > FileMaxSz
                THEN io' = [IoReturn(io, FALSE, 0) EXCEPT !.failed = "size"]
                ELSE io' = [io EXCEPT !.pc = "read", !.fileSz = Len(io.src.data)]
    /\ UNCHANGED NotIo

\* the passes of the loop in which read() returned 0, counted 1, 2, 1, 2, ..
\* to keep the count bounded
CountEofRead(n) == IF n = 1 THEN 2 ELSE 1

\* files.c:117-131: one pass of the loop of files_readFromFd: the loop ends,
\* or read() returns some of the remaining bytes, returns 0 (the file ends
\* before fileSz bytes: it was truncated after the fstat() of the caller, and
\* stays so), is interrupted, or fails
files_readFromFd ==
    /\ io.op # "none" /\ io.pc = "read"
    /\ IF io.done >= io.fileSz
       THEN io' = [io EXCEPT !.pc = "was_read", !.ok = TRUE]
       ELSE \/ /\ io.eofReads = 0
               /\ \E sz \in 1..(io.fileSz - io.done) :
                    io' = [io EXCEPT !.done = @ + sz,
                                     !.shortIo = @ \/ sz < io.fileSz - io.done,
                                     !.buf = ReadChunk(@, io.done,
                                                SubSeq(io.src.data, io.done + 1, io.done + sz))]
            \/ \* sz == 0: readSz += 0, and the loop goes on
               io' = [io EXCEPT !.eofReads = CountEofRead(@)]
            \/ /\ io.eintr < MaxEintr
               /\ io' = [io EXCEPT !.eintr = @ + 1]
            \/ io' = [io EXCEPT !.pc = "was_read", !.ok = FALSE, !.failed = "read"]
    /\ UNCHANGED NotIo

\* the return of files_readFromFd to its caller: files.c:63-72 in
\* files_readFileToBufMax, files.c:383-391 in files_copyFile
ReadReturn ==
    /\ io.op # "none" /\ io.pc = "was_read"
    /\ IF io.op = "files_readFileToBufMax"
       THEN io' = IoReturn(io, io.ok, IF io.ok THEN io.fileSz ELSE 0)
       ELSE IF io.ok
       THEN io' = [io EXCEPT !.pc = "write", !.done = 0]
       ELSE io' = IoReturn(io, FALSE, 0)
    /\ UNCHANGED NotIo

\* files.c:324-341: *dstExists = false, then link(source, destination): it
\* makes the link, finds the destination taken (EEXIST), or fails otherwise
CopyLink ==
    /\ io.op = "files_copyFile" /\ io.pc = "link"
    /\ \/ /\ io.src.exists /\ ~io.dst.exists
          /\ io' = [IoReturn(io, TRUE, 0) EXCEPT !.dst = io.src]
       \/ /\ io.dst.exists
          /\ io' = [IoReturn(io, FALSE, 0) EXCEPT !.dstExists = TRUE]
       \/ io' = [io EXCEPT !.pc = "open", !.failed = "link"]
    /\ UNCHANGED NotIo

\* files.c:344-381: open and fstat the source, open the destination with
\* dstOpenFlags, allocate the buffer
CopyOpen ==
    /\ io.op = "files_copyFile" /\ io.pc = "open"
    /\ \/ io' = [IoReturn(io, FALSE, 0) EXCEPT !.failed = "open"]
       \/ /\ io.src.exists
          /\ \/ io' = [IoReturn(io, FALSE, 0) EXCEPT !.failed = "fstat"]
             \/ IF "O_EXCL" \in dstOpenFlags /\ io.dst.exists
                THEN io' = [IoReturn(io, FALSE, 0) EXCEPT !.dstExists = TRUE]
                ELSE \/ io' = [IoReturn(io, FALSE, 0) EXCEPT !.failed = "open_dst"]
                     \/ io' = [IoReturn(io, FALSE, 0) EXCEPT !.dst = File(<<>>),
                                                             !.failed = "malloc"]
                     \/ io' = [io EXCEPT !.pc = "read", !.dst = File(<<>>),
                                         !.fileSz = Len(io.src.data),
                                         !.buf = [i \in 1..Len(io.src.data) |-> 0]]
    /\ UNCHANGED NotIo

\* the characters of a line of the blacklist file: two hexadecimal digits
\* and a character that is none
BlChars == {"1", "a", "g"}

\* the lines getline() can return, without the newline that ends them
BlLines == UNION {[1..n -> BlChars] : n \in 1..MaxBlDigits}

\* the blacklist files: up to MaxBlLines lines
BlFiles == UNION {[1..n -> BlLines] : n \in 0..MaxBlLines}

\* the value of a hexadecimal digit, -1 for any other character
HexVal(c) ==
    CASE c = "0" -> 0 [] c = "1" -> 1 [] c = "2" -> 2 [] c = "3" -> 3
      [] c = "4" -> 4 [] c = "5" -> 5 [] c = "6" -> 6 [] c = "7" -> 7
      [] c = "8" -> 8 [] c = "9" -> 9 [] c = "a" -> 10 [] c = "b" -> 11
      [] c = "c" -> 12 [] c = "d" -> 13 [] c = "e" -> 14 [] c = "f" -> 15
      [] OTHER -> -1

\* the number of leading hexadecimal digits of nptr
RECURSIVE HexDigits(_)
HexDigits(nptr) ==
    IF nptr = <<>> \/ HexVal(Head(nptr)) < 0 THEN 0 ELSE 1 + HexDigits(Tail(nptr))

\* the value of the first n characters of nptr, all hexadecimal digits (a
\* line has at most MaxBlDigits of them, so the value fits 64 bits)
RECURSIVE HexValue(_, _)
HexValue(nptr, n) ==
    IF n = 0 THEN 0 ELSE 16 * HexValue(nptr, n - 1) + HexVal(nptr[n])

\* files.c:511: strtoull(lineptr, 0, 16): the value of the longest prefix of
\* hexadecimal digits, 0 when there is none
strtoull(nptr) == HexValue(nptr, HexDigits(nptr))

\* files.c:489-493: fopen(hfuzz->blacklistFile, "rb")
BlacklistOpen ==
    /\ io.op = "files_parseBlacklist" /\ io.pc = "open"
    /\ \/ io' = [IoReturn(io, FALSE, 0) EXCEPT !.failed = "open"]
       \/ io' = [io EXCEPT !.pc = "getline"]
    /\ UNCHANGED NotIo

\* files.c:495-531: one pass of the loop: getline() finds no further line
\* and the function returns true (after LOG_I, or LOG_F for an empty file),
\* or realloc fails, or the value of the line is stored, compared with its
\* predecessor "if (hfuzz->blacklistCnt > 1)" and counted
BlacklistLine ==
    /\ io.op = "files_parseBlacklist" /\ io.pc = "getline"
    /\ IF io.done >= Len(io.lines)
       THEN /\ io' = IoReturn(io, TRUE, 0)
            /\ UNCHANGED hfuzz
       ELSE \/ /\ io' = [IoReturn(io, FALSE, 0) EXCEPT !.failed = "realloc"]
               /\ UNCHANGED hfuzz
            \/ LET cnt == hfuzz.blacklistCnt
                   blacklist == Prefix(hfuzz.blacklist, cnt)
                                   \o <<strtoull(io.lines[io.done + 1])>>
               IN  IF cnt > 1 /\ blacklist[cnt] > blacklist[cnt + 1]
                   THEN /\ hfuzz' = [hfuzz EXCEPT !.blacklist = blacklist]
                        /\ io' = [IoReturn(io, FALSE, 0) EXCEPT !.failed = "sorted"]
                   ELSE /\ hfuzz' = [hfuzz EXCEPT !.blacklist = blacklist,
                                                  !.blacklistCnt = cnt + 1]
                        /\ io' = [io EXCEPT !.done = @ + 1]
    /\ UNCHANGED <<fuzzer, pc, mainPc, fuzz_sigReceived, fs, exitStatus,
                   snapTorn, itersStarted, accepted, wakeLost, hist, corpus, env>>

\* the characters of files_readSysFS: a letter, the newline and the NUL
NL == "\n"
NUL == "NUL"
SysChars == {"a", NL, NUL}

\* the text a sysfs file can hold
SysTexts == UNION {[1..n -> {"a", NL}] : n \in 0..MaxSysLen}

\* the index of the first NUL at or after s[1]; the memory after the part
\* that is modelled is taken to hold a NUL
FirstNul(s) ==
    IF \E i \in 1..Len(s) : s[i] = NUL
    THEN CHOOSE i \in 1..Len(s) : s[i] = NUL /\ \A j \in 1..(i - 1) : s[j] # NUL
    ELSE Len(s) + 1

\* the C string that starts at s[1]
CString(s) == Prefix(s, FirstNul(s) - 1)

\* the index of the last c in s, 0 when there is none
LastIndexOf(s, c) ==
    IF \E i \in 1..Len(s) : s[i] = c
    THEN CHOOSE i \in 1..Len(s) : s[i] = c /\ \A j \in (i + 1)..Len(s) : s[j] # c
    ELSE 0

\* strrchr(s, c) for c # NUL: the index of the last c in the C string at s,
\* 0 for NULL
strrchr(s, c) == LastIndexOf(CString(s), c)

\* what files_readSysFS can address from buf: the bufSz characters of the
\* buffer, then the memory that follows it
SysMem == io.buf \o io.beyond

\* files.c:462-467: open(source, O_RDONLY, 0)
SysFSOpen ==
    /\ io.op = "files_readSysFS" /\ io.pc = "open"
    /\ \/ io' = [IoReturn(io, FALSE, -1) EXCEPT !.failed = "open"]
       \/ /\ io.src.exists
          /\ io' = [io EXCEPT !.pc = "sys_read"]
    /\ UNCHANGED NotIo

\* files.c:469-472: read(inFD, buf, bufSz), repeated while it is interrupted:
\* it stores the bytes it returns at the start of buf and nothing else
SysFSRead ==
    /\ io.op = "files_readSysFS" /\ io.pc = "sys_read"
    /\ \/ /\ io.eintr < MaxEintr
          /\ io' = [io EXCEPT !.eintr = @ + 1]
       \/ io' = [io EXCEPT !.pc = "sys_trim", !.count = -1, !.failed = "read"]
       \/ LET avail == IF Len(io.src.data) < io.fileSz THEN Len(io.src.data)
                                                       ELSE io.fileSz
          IN  \E count \in (IF avail = 0 THEN {0} ELSE 1..avail) :
                 io' = [io EXCEPT !.pc = "sys_trim", !.count = count,
                                  !.done = count,
                                  !.buf = ReadChunk(@, 0, Prefix(io.src.data, count))]
    /\ UNCHANGED NotIo

\* files.c:474-484: cp = strrchr(buf, '\n') when count > 0; *cp = '\0', or
\* buf[0] = '\0' when cp is NULL; return count
SysFSTrim ==
    /\ io.op = "files_readSysFS" /\ io.pc = "sys_trim"
    /\ LET cp == IF io.count > 0 THEN strrchr(SysMem, NL) ELSE 0
           mem == [SysMem EXCEPT ![IF cp # 0 THEN cp ELSE 1] = NUL]
       IN  io' = [IoReturn(io, TRUE, io.count) EXCEPT
                     !.buf = Prefix(mem, io.fileSz),
                     !.beyond = SubSeq(mem, io.fileSz + 1, Len(mem))]
    /\ UNCHANGED NotIo

\* One call of a helper on every input within the bounds.
InitIo ==
    /\ hfuzz = Config(TRUE, FALSE, MaxIoLen, 1, 1, _HF_DYNFILE_NONE)
    /\ InitProcess
    /\ corpus = LoadedCorpus
    /\ env = DefaultEnv
    /\ \/ \E buf \in IoData :
            io = Call("files_writeToFd", "write", {}, NoFile, NoFile, buf, Len(buf))
       \/ \E buf \in IoData, flags \in WriteFlags, dst \in IoFiles :
            io = Call("files_writeBufToFile", "open", flags, NoFile, dst, buf, Len(buf))
       \/ \E src \in IoFiles, fileMaxSz \in 0..MaxIoLen, b \in Bytes :
            io = Call("files_readFileToBufMax", "open", {}, src, NoFile,
                      [i \in 1..fileMaxSz |-> b], 0)
       \/ \E src \in IoFiles, dst \in IoFiles :
            io = Call("files_copyFile", "link", {}, src, dst, <<>>, 0)
       \/ \E src \in {NoFile} \cup {File(t) : t \in SysTexts},
             bufSz \in 1..MaxSysLen, beyond \in [1..1 -> SysChars] :
          \E buf \in [1..bufSz -> SysChars] :
            io = Call("files_readSysFS", "open", {}, src, NoFile, buf, bufSz)
                    @@ [beyond |-> beyond, count |-> 0]

NextIo ==
    \/ files_writeToFd
    \/ WriteReturn
    \/ WriteBufOpen
    \/ ReadOpen
    \/ files_readFromFd
    \/ ReadReturn
    \/ CopyLink
    \/ CopyOpen
    \/ SysFSOpen
    \/ SysFSRead
    \/ SysFSTrim

SpecIo == InitIo /\ [][NextIo]_vars

\* The thread that made the call keeps running.
SpecIoFair == SpecIo /\ WF_vars(NextIo)

\* One call of files_parseBlacklist on every blacklist file within the
\* bounds, with hfuzz->blacklist and hfuzz->blacklistCnt as cmdlineParse
\* leaves them (cmdline.c:146-147).
InitBlacklist ==
    /\ hfuzz = Config(TRUE, FALSE, MaxIoLen, 1, 1, _HF_DYNFILE_NONE)
    /\ InitProcess
    /\ corpus = LoadedCorpus
    /\ env = DefaultEnv
    /\ \E lines \in BlFiles :
         io = Call("files_parseBlacklist", "open", {}, NoFile, NoFile, <<>>, 0)
                 @@ [lines |-> lines]

NextBlacklist ==
    \/ BlacklistOpen
    \/ BlacklistLine

SpecBlacklist == InitBlacklist /\ [][NextBlacklist]_vars

\* The command line: the arguments of the target, -s, -W, -n, -p, -P, -e,
\* -t and the sanitizer coverage flag, over a plain pool of one iteration.
TargetArgs ==
    {Str1("t"),
     _HF_FILE_PLACEHOLDER,
     Str1("x") \o _HF_FILE_PLACEHOLDER \o Str1("y"),
     SubSeq(_HF_FILE_PLACEHOLDER, 1, Len(_HF_FILE_PLACEHOLDER) - 1)}

\* &argv[optind]: no command, a command, a command with one argument
TargetArgvs == {<<>>} \cup {<<a>> : a \in TargetArgs} \cup {<<Str1("t"), a>> : a \in TargetArgs}

\* the values of -W
WorkDirs ==
    {Str1("."), Str2(".", "."), Str2(".", "/"), Str2(".", "w"), Str1("w"),
     <<".", "w", "s">>, <<>>}

\* the values of -e, -t and the sanitizer coverage flag
OtherOptions ==
    {[fileExtn |-> <<"f", "u", "z", "z">>, tmOut |-> 3, useSanCov |-> FALSE],
     [fileExtn |-> <<"a", "/">>, tmOut |-> 3, useSanCov |-> FALSE],
     [fileExtn |-> <<"f", "u", "z", "z">>, tmOut |-> 3, useSanCov |-> TRUE],
     [fileExtn |-> <<"f", "u", "z", "z">>, tmOut |-> 15, useSanCov |-> TRUE]}

InitArgs ==
    /\ \E cmdline \in TargetArgvs, fuzzStdin \in BOOLEAN, workDir \in WorkDirs,
          threadsMax \in 0..MaxThreads, pid \in {0, 1}, pidFile \in BOOLEAN,
          other \in OtherOptions :
         hfuzz = [Config(TRUE, FALSE, 1, threadsMax, 1, _HF_DYNFILE_NONE)
                    EXCEPT !.cmdline = cmdline, !.fuzzStdin = fuzzStdin,
                           !.workDir = workDir, !.pid = pid, !.pidFile = pidFile,
                           !.fileExtn = other.fileExtn, !.tmOut = other.tmOut,
                           !.useSanCov = other.useSanCov]
    /\ InitProcess
    /\ corpus = LoadedCorpus
    /\ env \in [workDirExists : BOOLEAN, opts : {<<>>}]
    /\ io = NoCall

NextArgs ==
    \/ CmdlineParse
    \/ FuzzMainStart
    \/ MainCheck
    \/ MainPause
    \/ MainShutdown
    \/ TimerTick
    \/ \E w \in Workers : ThreadNew(w)
    \/ \E w \in Workers : ThreadFinish(w)
    \/ \E w \in Workers : ThreadWake(w)
    \/ \E w \in Workers : PlainPrepare(w)
    \/ \E w \in Workers : Fork(w)
    \/ \E w \in Workers : Reap(w)
    \/ \E w \in Workers : ExitFailure(w)

SpecArgs == InitArgs /\ [][NextArgs]_vars

\* The option loop of cmdlineParse on every command line of up to MaxOpts
\* flag options, followed by the target "t ___FILE___".
InitOpts ==
    /\ hfuzz = Config(TRUE, FALSE, 1, 1, 1, _HF_DYNFILE_NONE)
    /\ InitProcess
    /\ corpus = LoadedCorpus
    /\ env \in [workDirExists : BOOLEAN, opts : FlagArgvs]
    /\ io = NoCall

NextOpts ==
    \/ CmdlineOption
    \/ CmdlineParse

SpecOpts == InitOpts /\ [][NextOpts]_vars

\* The life of the pool: the plain and the external-command mode, the main
\* thread, the signals and the interval timer.
InitLife ==
    /\ \E externalCommand \in BOOLEAN, inputFile \in BOOLEAN,
          threadsMax \in 0..MaxThreads, mutationsMax \in 0..MaxMutations :
         /\ externalCommand \/ inputFile
         /\ hfuzz = Config(inputFile, externalCommand, 1, threadsMax,
                           mutationsMax, _HF_DYNFILE_NONE)
    /\ InitRest

\* the steps of worker w outside dynamic mode
WorkerLife(w) ==
    \/ ThreadNew(w) \/ ThreadFinish(w) \/ ThreadWake(w)
    \/ PlainPrepare(w) \/ ExtCreate(w) \/ ExtFork(w) \/ ExtWait(w)
    \/ Fork(w) \/ Reap(w)
    \/ ExitFailure(w)

\* the steps of the main thread
MainLife ==
    \/ CmdlineParse \/ FuzzMainStart \/ MainCheck \/ MainPause \/ MainShutdown

NextLife ==
    \/ CmdlineParse
    \/ FuzzMainStart
    \/ MainCheck
    \/ MainPause
    \/ MainShutdown
    \/ \E sig \in TermSignals : Signal(sig)
    \/ TimerTick
    \/ \E w \in Workers : ThreadNew(w)
    \/ \E w \in Workers : ThreadFinish(w)
    \/ \E w \in Workers : ThreadWake(w)
    \/ \E w \in Workers : PlainPrepare(w)
    \/ \E w \in Workers : ExtCreate(w)
    \/ \E w \in Workers : ExtFork(w)
    \/ \E w \in Workers : ExtWait(w)
    \/ \E w \in Workers : Fork(w)
    \/ \E w \in Workers : Reap(w)
    \/ \E w \in Workers : ExitFailure(w)

SpecLife == InitLife /\ [][NextLife]_vars

\* Every thread that can run does run, and the interval timer keeps firing.
FairLife ==
    /\ \A w \in AllWorkers : WF_vars(WorkerLife(w))
    /\ WF_vars(MainLife)
    /\ WF_vars(TimerTick)

SpecLifeFair == SpecLife /\ FairLife


(***************************************************************************)
(* The feedback store (SpecDyn).                                           *)
(***************************************************************************)
\* the positions of the update step at which a worker holds the mutex
UpdatePcs == {"upd_cmp", "upd_assign", "upd_open", "upd_write", "upd_rename"}

\* worker w leaves the comparison of fuzz.c:360 in this step
Compares(w) == pc[w] = "upd_cmp" /\ pc'[w] # "upd_cmp"

\* C1: the update step accepts a candidate if and only if each of its
\* counters, as an unsigned number, is greater than or equal to the best's.
C1_AcceptsIffDominates ==
    [][\A w \in AllWorkers :
         Compares(w) =>
            ((pc'[w] = "upd_assign")
                <=> \A d \in Dims : fuzzer[w].hwCnts[d] >= hfuzz.hwCnts[d])]_vars

\* C2: no shared best counter ever decreases.
C2_BestCountersMonotone ==
    [][\A d \in Dims : hfuzz'.hwCnts[d] >= hfuzz.hwCnts[d]]_vars

\* C3: CURRENT_BEST does not exist, or holds exactly the bytes of a
\* candidate that was accepted before; never a part of one, never a mix.
C3_AtomicPublish ==
    fs[CURRENT_BEST].exists => fs[CURRENT_BEST].data \in accepted

\* C3 witness: CURRENT_BEST holds an accepted candidate while a later update
\* has written one of its two bytes to the temporary file.
C3_Witness ==
    /\ fs[CURRENT_BEST].exists
    /\ fs[TMP_CURRENT_BEST].exists
    /\ \E w \in AllWorkers :
         /\ pc[w] = "upd_write"
         /\ fuzzer[w].dynamicFileSz = 2
         /\ Len(fs[TMP_CURRENT_BEST].data) = 1
         /\ fuzzer[w].dynamicFile # fs[CURRENT_BEST].data

\* the positions at which the next thing worker w does is a read of the
\* shared best: under the lock (fuzz.c:117-136, 354-358) and without it
\* (fuzz.c:141-142, 343-350)
ReadsBestPcs == {"dyn_locked", "upd_cmp", "dyn_mangle", "update"}

\* the positions at which the next thing worker w does is a write of the
\* shared best (fuzz.c:120-127, 371-378)
WritesBestPcs == {"dyn_locked", "upd_cmp", "upd_assign"}

\* C4: a worker reads the shared best only while it holds
\* dynamicFile_mutex, and never while another worker may be writing it.
C4_ReadsUnderLock ==
    \A w \in AllWorkers :
        pc[w] \in ReadsBestPcs =>
            /\ hfuzz.dynamicFile_mutex = w
            /\ \A v \in AllWorkers \ {w} : pc[v] \notin WritesBestPcs

\* C5: no snapshot is taken between the write of the bytes and the write of
\* the size of an update: the pair a worker copies is the pair of one
\* instant, and the mutex has one holder at most.
C5_SnapshotConsistent ==
    /\ \A w \in AllWorkers : ~snapTorn[w]
    /\ \A w \in AllWorkers :
         pc[w] \in UpdatePcs \cup {"dyn_locked"} => hfuzz.dynamicFile_mutex = w

\* C5 witness: a worker holds the two-byte snapshot it took under the lock
\* while the other worker, now the holder, is between the write of the bytes
\* and the write of the size of its one-byte candidate.
C5_Witness ==
    \E w, v \in AllWorkers :
        /\ pc[w] = "dyn_mangle" /\ pc[v] = "upd_assign"
        /\ fuzzer[w].dynamicFileSz = 2
        /\ fuzzer[v].dynamicFileSz = 1
        /\ ~snapTorn[w]

\* C6: once the configuration is accepted, 1 <= dynamicFileBestSz <= maxFileSz.
C6_BestSizeInRange ==
    mainPc # "cmdlineParse" =>
        /\ 1 <= hfuzz.dynamicFileBestSz
        /\ hfuzz.dynamicFileBestSz <= hfuzz.maxFileSz

\* C6 witness: the best has grown to maxFileSz bytes by an accepted update
\* after it was seeded from the corpus.
C6_Witness ==
    /\ hfuzz.inputFile
    /\ hfuzz.dynamicFileBestSz = hfuzz.maxFileSz /\ hfuzz.maxFileSz > 1
    /\ AnyCntPositive(hfuzz.hwCnts)
    /\ \A w \in AllWorkers : pc[w] \notin UpdatePcs


(***************************************************************************)
(* The life of the pool (SpecLife, SpecLifeFair).                          *)
(***************************************************************************)
\* the positions of a worker that has left the loop of fuzz_threadNew
StoppedPcs == {"finish", "wake", "returned"}

Stopped == {w \in AllWorkers : pc[w] \in StoppedPcs}

Min(a, b) == IF a <= b THEN a ELSE b

\* C7: with a cap N > 0 the fetch-and-adds that returned less than N, and
\* only they, started an iteration, so at most N iterations start and
\* exactly N have started when every worker has returned; every other
\* fetch-and-add stopped its worker.  Without a cap no worker stops and
\* threadsFinished stays 0.
C7_IterationCap ==
    /\ itersStarted + Cardinality(Stopped) = hfuzz.mutationsCnt
    /\ hfuzz.mutationsMax > 0 =>
          /\ itersStarted = Min(hfuzz.mutationsCnt, hfuzz.mutationsMax)
          /\ (hfuzz.threadsMax > 0 /\ \A w \in Workers : pc[w] = "returned")
                => itersStarted = hfuzz.mutationsMax
    /\ hfuzz.mutationsMax = 0 =>
          /\ Stopped = {}
          /\ hfuzz.threadsFinished = 0

\* C7 witness: two workers have shared the cap of two iterations and have
\* both returned.
C7_Witness ==
    /\ hfuzz.threadsMax = 2 /\ hfuzz.mutationsMax = 2
    /\ \A w \in Workers : pc[w] = "returned"
    /\ itersStarted = 2
    /\ hfuzz.mutationsCnt = 4

\* C8: the main thread is past its wait loop only if SIGINT, SIGTERM or
\* SIGQUIT was received or threadsFinished >= threadsMax.
C8_MainLeavesLoop ==
    mainPc \in {"shutdown", "exited"} =>
        \/ fuzz_sigReceived \in TermSignals
        \/ hfuzz.threadsFinished >= hfuzz.threadsMax

\* C8 witness: the main thread has left the loop without any termination
\* signal, after both workers finished and woke it with SIGALRM.
C8_Witness ==
    /\ mainPc = "shutdown"
    /\ fuzz_sigReceived = 0
    /\ hfuzz.threadsMax = 2 /\ hfuzz.threadsFinished = 2
    /\ \A w \in Workers : pc[w] = "returned"

\* an iteration has ended in an error
IterationFailed == \E w \in AllWorkers : pc[w] \in {"prep_failed", "fatal", "exited"}

\* C9: with a positive cap and threads that keep running, the process
\* eventually exits with status 0, unless an iteration ends in an error.
C9_EventuallyExits ==
    (hfuzz.mutationsMax > 0) => <>(exitStatus = "EXIT_SUCCESS" \/ IterationFailed)

\* C9 witness: the process has exited with status 0 without any signal
\* although the SIGALRM of the last worker was lost before pause().
C9_Witness ==
    /\ exitStatus = "EXIT_SUCCESS"
    /\ wakeLost
    /\ fuzz_sigReceived = 0
    /\ hfuzz.mutationsMax > 0 /\ hfuzz.threadsMax = 2

\* worker w acts on a preparation that returned false
LeavesFailedPrep(w) == pc[w] = "prep_failed" /\ pc'[w] # "prep_failed"

ExternalDone(w) == fuzzer[w].childStatus # "none"

\* C11: fuzz_prepareFileExternally reports success only when the external
\* command exited with status 0, and reports failure whenever it exited
\* with a non-zero status or was terminated by a signal.
C11_ExternalFailureFails ==
    \A w \in AllWorkers :
       ExternalDone(w) =>
          /\ pc[w] = "fork" => fuzzer[w].childStatus = "exited_0"
          /\ fuzzer[w].childStatus # "exited_0" => pc[w] \in {"prep_failed", "exited"}

\* worker w is inside an iteration of fuzz_fuzzLoop
InIteration(w) == pc[w] \notin {"none", "thread", "finish", "wake", "returned", "exited"}

\* the iteration of worker w ends: fuzz_fuzzLoop returns, or the worker ends
\* the process
IterationEnds(w) == InIteration(w) /\ pc'[w] \in {"thread", "exited"}

\* C12: whatever its outcome, once an iteration has ended the candidate
\* file it created no longer exists.
C12_CandidateUnlinked ==
    [][\A w \in AllWorkers :
         (IterationEnds(w) /\ fuzzer[w].created)
            => ~fs'[fuzzer[w].fileName].exists]_vars

\* worker w has forked a child it has not reaped, or holds a candidate file
\* it has not unlinked
ChildOrCandidatePending(w) == pc[w] = "reap" \/ fuzzer[w].created

\* C13: when the process exits after a termination signal, every worker that
\* was inside an iteration has reaped its child and unlinked its candidate.
C13_ReapBeforeExit ==
    (exitStatus = "EXIT_SUCCESS" /\ fuzz_sigReceived \in TermSignals)
        => \A w \in AllWorkers : ~ChildOrCandidatePending(w)

\* C14: a child whose launch of the target failed ends by abort(), a
\* termination by signal, and never by a normal exit with a status.
C14_LaunchFailureAborts ==
    \A w \in AllWorkers :
       (pc[w] = "reap" /\ fuzzer[w].child # "target") => fuzzer[w].child = "abort"

(***************************************************************************)
(* Seeding and persistence of the shared best.                             *)
(***************************************************************************)
\* worker w executes the seeding step and the copy (fuzz.c:117-138)
SeedingCall(w) == pc[w] = "dyn_locked" /\ pc'[w] # "dyn_locked"

\* the step reads a seed file
ReadsSeed == hfuzz.inputFile /\ AllCntsZero(hfuzz.hwCnts)

\* the step leaves the best bytes and the best size as they are
BestUnchanged ==
    /\ hfuzz'.dynamicFileBest = hfuzz.dynamicFileBest
    /\ hfuzz'.dynamicFileBestSz = hfuzz.dynamicFileBestSz

\* C15: once a best counter has been non-zero, every later seeding step
\* reads no seed file and leaves best bytes and best size unchanged.
C15_NoSeedingAfterFeedback ==
    [][\A w \in AllWorkers :
         (hist.everPositive /\ SeedingCall(w)) => (~ReadsSeed /\ BestUnchanged)]_vars

\* C16: once the best has been seeded from the corpus, a further seeding
\* call leaves best bytes and best size unchanged, also while all counters
\* are still zero.
C16_SeedingIdempotent ==
    [][\A w \in AllWorkers :
         (hist.seeded /\ SeedingCall(w)) => BestUnchanged]_vars

\* C17: whenever no worker holds dynamicFile_mutex and a candidate has been
\* accepted, CURRENT_BEST exists and equals best_bytes[0:best_size].
C17_FileEqualsBest ==
    (hfuzz.dynamicFile_mutex = NoOwner /\ accepted # {})
        => /\ fs[CURRENT_BEST].exists
           /\ fs[CURRENT_BEST].data = Prefix(hfuzz.dynamicFileBest, hfuzz.dynamicFileBestSz)

\* C18: when the budget of iterations on one best is used up, the next
\* preparation re-seeds the best from the corpus and resets the counters.
C18_ReseedOnExpiry ==
    [][\A w \in AllWorkers :
         (/\ hfuzz.inputFile
          /\ hist.itersOnBest >= hfuzz.dynFileIterExpire
          /\ pc[w] = "dyn_locked" /\ pc'[w] = "dyn_mangle")
            => (AllCntsZero(hfuzz'.hwCnts) /\ hist'.itersOnBest <= 1 /\ hist'.seeded)]_vars

(***************************************************************************)
(* The size of a candidate (SpecModes).                                    *)
(***************************************************************************)
\* the external-command mode is the one in use (fuzz.c:299-311)
ExternalMode == hfuzz.dynFileMethod = _HF_DYNFILE_NONE /\ hfuzz.externalCommand

\* the candidate of worker w is on disk as the fuzzer wrote it: the external
\* command, if any, has not run yet, and the file is not unlinked
FuzzerWrote(w) ==
    /\ fuzzer[w].created
    /\ IF ExternalMode THEN pc[w] \in {"ext_fork", "ext_wait"}
                       ELSE pc[w] \in {"fork", "reap"}

CandidateLen(w) == Len(fs[fuzzer[w].fileName].data)

\* C19 as claimed: in every preparation mode the candidate the fuzzer
\* writes has a length between 1 and maxFileSz.
C19_CandidateSizeAllModes ==
    \A w \in AllWorkers :
       FuzzerWrote(w) => (1 <= CandidateLen(w) /\ CandidateLen(w) <= hfuzz.maxFileSz)

\* C19 as amended: the candidate the fuzzer writes has a length between 1
\* and maxFileSz in dynamic mode, in plain mode and in external mode with an
\* input corpus; in external mode without a corpus the fuzzer creates an
\* empty file for the external command to fill.
C19_CandidateSize ==
    \A w \in AllWorkers :
       FuzzerWrote(w) =>
          IF ExternalMode /\ ~hfuzz.inputFile
          THEN CandidateLen(w) = 0
          ELSE 1 <= CandidateLen(w) /\ CandidateLen(w) <= hfuzz.maxFileSz

\* C19 witness: in external mode a seed of the largest size has been copied
\* into the candidate, and the command has not run yet.
C19_Witness ==
    \E w \in AllWorkers :
       /\ ExternalMode /\ hfuzz.inputFile
       /\ FuzzerWrote(w) /\ pc[w] = "ext_wait"
       /\ CandidateLen(w) = hfuzz.maxFileSz /\ hfuzz.maxFileSz > 1

(***************************************************************************)
(* The corpus (SpecCorpus).                                                *)
(***************************************************************************)
\* the children of the input directory that are regular, non-empty and not
\* larger than maxFileSz
Qualifying ==
    {n \in DOMAIN corpus.dir :
        /\ corpus.dir[n].kind = "reg"
        /\ corpus.dir[n].size > 0
        /\ corpus.dir[n].size <= hfuzz.maxFileSz}

\* hfuzz->files[0 .. fileCnt-1] as a set
Listed == {corpus.files[i] : i \in 1..Len(corpus.files)}

\* files_init has returned on an input path, without an error of the system
Loaded(kind) ==
    /\ corpus.pc = "done" /\ ~corpus.error
    /\ hfuzz.inputFile /\ corpus.input = kind

\* the list holds exactly the qualifying children, each once
ExactlyQualifying ==
    /\ Listed = Qualifying
    /\ corpus.fileCnt = Cardinality(Qualifying)
    /\ Len(corpus.files) = corpus.fileCnt

\* the list holds exactly the input file
ExactlyInput == corpus.ret /\ corpus.files = <<"inputFile">> /\ corpus.fileCnt = 1

\* C20 as claimed: files_init on a directory yields exactly its regular,
\* non-empty children of size <= maxFileSz, and files_init on a regular
\* file yields exactly that file.
C20_CorpusDisciplineAnyFile ==
    /\ Loaded("dir") => ExactlyQualifying
    /\ Loaded("reg") => ExactlyInput

\* C20 as amended: files_init on a directory yields exactly its regular,
\* non-empty children of size <= maxFileSz (and succeeds iff there is one);
\* on a regular file of size <= maxFileSz, an empty one included, it yields
\* exactly that file, and on a larger regular file it fails.
C20_CorpusDiscipline ==
    /\ Loaded("dir") => (ExactlyQualifying /\ (corpus.ret <=> Qualifying # {}))
    /\ Loaded("reg") => IF corpus.inputSize <= hfuzz.maxFileSz
                        THEN ExactlyInput
                        ELSE ~corpus.ret /\ corpus.fileCnt = 0

\* C20 witness: a directory of a qualifying and a too large regular file has
\* been read: one file is listed.
C20_Witness ==
    /\ Loaded("dir") /\ corpus.ret
    /\ Cardinality(DOMAIN corpus.dir) = 2
    /\ Cardinality(Qualifying) = 1
    /\ \E n \in DOMAIN corpus.dir : corpus.dir[n].kind = "reg" /\ TooBig(corpus.dir[n].size)

\* what stat() tells about entry e of hfuzz->files after files_init on an
\* input path
EntryStat(e) ==
    IF corpus.input = "reg"
    THEN [kind |-> "reg", size |-> corpus.inputSize]
    ELSE corpus.dir[e]

\* files_init has returned true on an input path
LoadedInput == corpus.pc = "done" /\ corpus.ret /\ hfuzz.inputFile

\* C21: after a successful files_init with an input path, every entry of
\* hfuzz->files is a regular, non-empty file of size <= maxFileSz, for a
\* single input file as well as for an input directory.
C21_EntriesQualify ==
    LoadedInput =>
       \A i \in 1..corpus.fileCnt :
          /\ EntryStat(corpus.files[i]).kind = "reg"
          /\ EntryStat(corpus.files[i]).size > 0
          /\ EntryStat(corpus.files[i]).size <= hfuzz.maxFileSz

\* a mode that prepares its candidates without a corpus is active
PlaceholderMode == hfuzz.dynFileMethod # _HF_DYNFILE_NONE \/ hfuzz.externalCommand

\* the single synthetic entry of the active mode
Placeholder ==
    IF hfuzz.dynFileMethod # _HF_DYNFILE_NONE THEN <<"DYNAMIC_FILE">> ELSE <<"CREATED">>

\* files_init has returned, without an error of the system
Returned == corpus.pc = "done" /\ ~corpus.error

\* the input path yields no seed: none was given, or it is a directory
\* without a qualifying child
NoSeeds ==
    \/ ~hfuzz.inputFile
    \/ corpus.input = "dir" /\ Qualifying = {}

\* C22 as claimed: files_init fails when the seed set is empty, except that
\* in dynamic or external-command mode it succeeds with the one placeholder
\* entry, also when an input directory without a qualifying file was given.
C22_EmptySetFailsUnlessAnyPlaceholderMode ==
    (Returned /\ NoSeeds) =>
       IF PlaceholderMode
       THEN corpus.ret /\ corpus.fileCnt = 1 /\ corpus.files = Placeholder
       ELSE ~corpus.ret

\* C22 as amended: without an input path files_init succeeds with the one
\* placeholder entry in dynamic or external-command mode and fails in plain
\* mode; on an input directory without a qualifying file it fails in every
\* mode, and lists nothing.
C22_EmptySetFails ==
    /\ (Returned /\ ~hfuzz.inputFile) =>
          IF PlaceholderMode
          THEN corpus.ret /\ corpus.fileCnt = 1 /\ corpus.files = Placeholder
          ELSE ~corpus.ret
    /\ (Returned /\ hfuzz.inputFile /\ NoSeeds) => (~corpus.ret /\ corpus.fileCnt = 0)
    /\ (Returned /\ corpus.ret) => corpus.fileCnt >= 1

\* C22 witness: in dynamic mode files_init has failed on an input directory
\* whose only child is an empty file.
C22_Witness ==
    /\ Returned /\ ~corpus.ret
    /\ hfuzz.dynFileMethod # _HF_DYNFILE_NONE
    /\ hfuzz.inputFile /\ corpus.input = "dir"
    /\ Cardinality(DOMAIN corpus.dir) = 1 /\ Qualifying = {}

(***************************************************************************)
(* The command line (SpecArgs).                                            *)
(***************************************************************************)
\* cmdlineParse has returned true / false
ParseAccepted == mainPc # "cmdlineParse"
ParseRejected == mainPc = "cmdlineParse" /\ exitStatus = "EXIT_FAILURE"

\* some argument of the target has the placeholder as a substring
PlaceholderInArgv ==
    \E x \in 1..Len(hfuzz.cmdline) :
       \E i \in 1..Len(hfuzz.cmdline[x]), j \in 1..Len(hfuzz.cmdline[x]) :
          SubSeq(hfuzz.cmdline[x], i, j) = _HF_FILE_PLACEHOLDER

\* a check of cmdlineParse other than the one for the placeholder fails
RejectedButForPlaceholder ==
    NoCommand \/ InitialSizeTooLarge \/ SanCovRejected \/ ExtnHasSlash \/ WorkDirMissing

\* C23: cmdlineParse fails, and the pool never starts, when stdin mode is
\* off and no argument of the target contains ___FILE___ as a substring;
\* with stdin mode on, or with the placeholder anywhere inside an argument,
\* the configuration passes this check: when cmdlineParse still fails,
\* another of its checks does.
C23_PlaceholderOrStdin ==
    /\ ParseAccepted => (hfuzz.fuzzStdin \/ PlaceholderInArgv)
    /\ (~hfuzz.fuzzStdin /\ ~PlaceholderInArgv) => \A w \in AllWorkers : pc[w] = "none"
    /\ (ParseRejected /\ (hfuzz.fuzzStdin \/ PlaceholderInArgv)) => RejectedButForPlaceholder

\* C23 witness: a command line without -s whose only placeholder is in the
\* middle of an argument has been accepted, and the pool has started.
C23_Witness ==
    /\ ~hfuzz.fuzzStdin
    /\ hfuzz.cmdline = <<Str1("t"), Str1("x") \o _HF_FILE_PLACEHOLDER \o Str1("y")>>
    /\ ParseAccepted
    /\ \E w \in Workers : pc[w] = "thread"

\* C24: when the configuration attaches to a pre-existing process (pid > 0
\* or a pid file), no iteration forks a process for the target.
C24_AttachDoesNotFork ==
    AttachesToPid => \A w \in AllWorkers : fuzzer[w].child = "none"

\* a check of cmdlineParse other than the one for the workspace fails
RejectedButForWorkDir ==
    NoCommand \/ InitialSizeTooLarge \/ PlaceholderMissing \/ SanCovRejected \/ ExtnHasSlash

\* C25: cmdlineParse rejects every workspace path other than "." that does
\* not exist, and accepts "." without looking for it.
C25_WorkspaceMustExist ==
    /\ (ParseAccepted /\ hfuzz.workDir # Str1(".")) => env.workDirExists
    /\ (ParseRejected /\ hfuzz.workDir = Str1(".")) => RejectedButForWorkDir

\* C26: a thread count that is not greater than 0 is rejected by
\* cmdlineParse, so the process never ends with success for a pool of no
\* worker.
C26_ThreadsPositive ==
    /\ ParseAccepted => hfuzz.threadsMax > 0
    /\ ~(exitStatus = "EXIT_SUCCESS" /\ hfuzz.threadsMax <= 0 /\ itersStarted = 0)

(***************************************************************************)
(* The helpers of files.c (SpecIo).                                        *)
(***************************************************************************)
\* the call of helper op has returned
Returns(op) == io.op = op /\ io.pc = "done"

\* the bytes the caller asked to write
Given == Prefix(io.buf, io.fileSz)

\* C27 as claimed: when files_writeBufToFile returns true the file exists
\* with exactly the given bytes; when it returns false no file remains at
\* the path, whether the open or the write failed.
C27_NoFileOnAnyFailure ==
    Returns("files_writeBufToFile") =>
       IF io.ret THEN io.dst = File(Given) ELSE ~io.dst.exists

\* C27 as amended: when files_writeBufToFile returns true the file exists
\* with exactly the given bytes; when it returns false after a failed write
\* no file remains at the path; when it returns false because the open
\* failed, the path is as it was before the call, an existing file included.
C27_NoFileOnWriteFailure ==
    Returns("files_writeBufToFile") =>
       /\ io.ret => io.dst = File(Given)
       /\ (~io.ret /\ io.failed = "write") => ~io.dst.exists
       /\ (~io.ret /\ io.failed = "open") => io.dst = io.dst0
       /\ ~io.ret => io.failed \in {"write", "open"}

\* C27 witness: over an existing file opened with O_TRUNC the write failed
\* after a partial write, and the file is gone.
C27_Witness ==
    /\ Returns("files_writeBufToFile") /\ ~io.ret
    /\ io.dst0.exists /\ io.failed = "write" /\ Len(io.out) > 0
    /\ ~io.dst.exists

\* C28 as claimed: files_writeToFd returns true with exactly fileSz bytes
\* written to the descriptor in order, or false with no byte written.
C28_AllOrNothing ==
    Returns("files_writeToFd") =>
       IF io.ret THEN io.out = Given ELSE io.out = <<>>

\* C28 as amended: files_writeToFd returns true only with exactly the fileSz
\* bytes written to the descriptor in order; it returns false after a write
\* error, and then a proper prefix of the bytes (possibly empty) has been
\* written.
C28_AllOrPrefix ==
    Returns("files_writeToFd") =>
       IF io.ret
       THEN io.out = Given
       ELSE Len(io.out) < io.fileSz /\ io.out = Prefix(io.buf, Len(io.out))

\* C28 witness: the whole buffer was written through a short write and an
\* interrupted write.
C28_Witness ==
    /\ Returns("files_writeToFd") /\ io.ret
    /\ io.fileSz = MaxIoLen /\ io.shortIo /\ io.eintr > 0
    /\ io.buf[1] # io.buf[2]

\* the file cannot be opened or read
ReadFails == ~io.src.exists \/ io.failed # "none"

\* C29: files_readFileToBufMax returns 0 when the file is larger than
\* fileMaxSz or cannot be opened or read; otherwise it returns the size of
\* the file with exactly the file's bytes in the buffer, also when reads
\* were short or interrupted.
C29_ReadWholeOrZero ==
    Returns("files_readFileToBufMax") =>
       IF ReadFails \/ Len(io.src.data) > FileMaxSz
       THEN io.retSz = 0
       ELSE io.retSz = Len(io.src.data) /\ Prefix(io.buf, io.retSz) = io.src.data

\* C29 witness: a file of the largest size was read through a short read
\* and an interrupted read.
C29_Witness ==
    /\ Returns("files_readFileToBufMax")
    /\ io.retSz = MaxIoLen /\ io.shortIo /\ io.eintr > 0
    /\ io.src.data[1] # io.src.data[2]

\* the destination is as it was when files_copyFile was called
DstKept == io.dst = io.dst0

\* C30 as claimed: files_copyFile never modifies an existing destination;
\* when the destination exists it returns false with *dstExists = true, and
\* *dstExists is true only then.
C30_ExistingAlwaysReported ==
    io.op = "files_copyFile" =>
       /\ io.dst0.exists => DstKept
       /\ (io.pc = "done" /\ io.dst0.exists) => (~io.ret /\ io.dstExists)
       /\ io.dstExists => io.dst0.exists

\* C30 as amended: files_copyFile never modifies an existing destination and
\* returns false when the destination exists; *dstExists is true only when
\* the destination exists, and it is true then unless link() failed for
\* another reason and the source could not be opened or fstat()ed.
C30_ExistingKept ==
    io.op = "files_copyFile" =>
       /\ io.dst0.exists => DstKept
       /\ (io.pc = "done" /\ io.dst0.exists) =>
             (~io.ret /\ (io.dstExists <=> io.failed \notin {"open", "fstat"}))
       /\ io.dstExists => io.dst0.exists

\* C30 witness: link() failed for another reason and the exclusive-create
\* open of the fallback found the destination taken.
C30_Witness ==
    /\ Returns("files_copyFile") /\ ~io.ret
    /\ io.src.exists /\ io.dst0.exists /\ Len(io.dst0.data) > 0
    /\ io.failed = "link" /\ io.dstExists /\ DstKept

\* the workers that created the candidate at path p in their current
\* iteration and have not unlinked it yet
CandidateOwners(p) ==
    {w \in Workers : fuzzer[w].created /\ fuzzer[w].fileName = p}

\* C33: candidate files of concurrent workers never collide. A candidate
\* path has at most one worker that created it, and its file exists while
\* that worker holds it; a step changes an existing candidate file only when
\* it is a step of the worker that created it, and a candidate file comes
\* into existence only as the file of the worker whose step created it. So
\* a create on a path that exists fails and leaves the file as it was.
C33_CandidatesNeverCollide ==
    /\ [](\A p \in CandNames :
             /\ Cardinality(CandidateOwners(p)) <= 1
             /\ CandidateOwners(p) # {} => fs[p].exists)
    /\ [][\A p \in CandNames :
             fs'[p] # fs[p] =>
                IF fs[p].exists
                THEN \E w \in CandidateOwners(p) : pc'[w] # pc[w]
                ELSE \E w \in Workers :
                        /\ pc'[w] # pc[w]
                        /\ fuzzer'[w].created /\ fuzzer'[w].fileName = p]_vars

\* C33 witness: two workers drew the same name; the first created the
\* candidate and still has it with its bytes, the create of the second
\* failed.
C33_Witness ==
    \E w \in Workers, v \in Workers :
       /\ w # v
       /\ fuzzer[w].created /\ fuzzer[v].fileName = fuzzer[w].fileName
       /\ ~fuzzer[v].created /\ pc[v] = "prep_failed"
       /\ pc[w] \in {"fork", "reap"}
       /\ fs[fuzzer[w].fileName] = File(fuzzer[w].dynamicFile)
       /\ Len(fuzzer[w].dynamicFile) > 0

\* the shared best and what the update step writes
BestState ==
    <<hfuzz.dynamicFileBest, hfuzz.dynamicFileBestSz, hfuzz.hwCnts>>

\* C34: in non-dynamic mode (dynFileMethod is NONE) no step after the start
\* of fuzz_main modifies the best bytes, the best size or the best counters;
\* dynamicFile_mutex is never taken, and neither CURRENT_BEST nor
\* .tmp.CURRENT_BEST is ever created.
C34_NonDynamicLeavesBestAlone ==
    /\ [](hfuzz.dynFileMethod = _HF_DYNFILE_NONE =>
             /\ hfuzz.dynamicFile_mutex = NoOwner
             /\ ~fs[CURRENT_BEST].exists
             /\ ~fs[TMP_CURRENT_BEST].exists)
    /\ [][(hfuzz.dynFileMethod = _HF_DYNFILE_NONE /\ mainPc # "cmdlineParse")
             => BestState' = BestState]_vars

\* C34 witness: in non-dynamic mode a worker has finished an iteration (its
\* candidate was run and unlinked) and has prepared the next one.
C34_Witness ==
    /\ hfuzz.dynFileMethod = _HF_DYNFILE_NONE
    /\ hfuzz.mutationsCnt >= 2
    /\ \E w \in Workers : pc[w] = "reap" /\ fuzzer[w].child = "target"

\* C35: the first pass is unmutated. A worker in dynamic mode whose snapshot
\* was taken, under the lock, with all counters of the best at zero writes
\* its candidate as copied: the step from the snapshot to the candidate
\* file leaves the bytes of the snapshot unchanged, whatever the other
\* workers do in between.
C35_FirstPassUnmutated ==
    [][\A w \in Workers :
          (pc[w] = "dyn_mangle" /\ pc'[w] # "dyn_mangle" /\ fuzzer[w].firstPass)
             => /\ fuzzer'[w].dynamicFile = fuzzer[w].dynamicFile
                /\ pc'[w] = "fork" =>
                      fs'[fuzzer'[w].fileName] = File(fuzzer[w].dynamicFile)]_vars

\* where a worker is between MX_LOCK and MX_UNLOCK
HoldsMutexAt ==
    {"dyn_locked", "upd_cmp", "upd_assign", "upd_open", "upd_write", "upd_rename"}

\* the steps of worker w between MX_LOCK and MX_UNLOCK, and the end of the
\* process on a fatal error
HolderStep(w) ==
    \/ DynSnapshot(w)
    \/ UpdCompare(w)
    \/ UpdAssign(w)
    \/ UpdOpenTmp(w)
    \/ UpdWriteTmp(w)
    \/ UpdRename(w)
    \/ ExitFailure(w)

WorkerReturned(w) == pc[w] \in {"none", "finish", "wake", "returned"}

\* C37: no worker uses hfuzz->files or hfuzz->dynamicFileBest after the main
\* thread freed them: in the step in which fuzz_main frees the two buffers,
\* every worker has returned from its last iteration, whether the loop of
\* fuzz_main ended on the iteration cap or on a termination signal.
C37_WorkersReturnedAtFree ==
    [][(mainPc = "shutdown" /\ mainPc' = "exited")
          => \A w \in Workers : WorkerReturned(w)]_vars

\* the same for an end on the iteration cap alone (no termination signal)
WorkersReturnedAtFreeOnCap ==
    [][(mainPc = "shutdown" /\ mainPc' = "exited"
           /\ fuzz_sigReceived \notin TermSignals)
          => \A w \in Workers : WorkerReturned(w)]_vars

\* C38: files_readFromFd terminates for every sequence of results of read():
\* a call that has entered the loop leaves it, also when read() returns 0
\* before fileSz bytes were read.
C38_ReadTerminates == (io.pc = "read") ~> (io.pc # "read")

\* C39: when files_copyFile returns false with *dstExists = false, it has
\* left no destination file behind: a destination that did not exist when
\* it was called does not exist when it returns, whichever step after the
\* exclusive-create open failed (malloc, read or write).
C39_NoDestinationLeftBehind ==
    (Returns("files_copyFile") /\ ~io.ret /\ ~io.dstExists /\ ~io.dst0.exists)
        => ~io.dst.exists

\* the stack hashes of the blacklist file, line by line
FileHashes == [i \in 1..Len(io.lines) |-> strtoull(io.lines[i])]

\* C31: files_parseBlacklist succeeds only if the stack hashes in the file
\* are in non-decreasing order: when it returns true, no entry is smaller
\* than its predecessor, the second entry included.
C31_SortedOrRejected ==
    (Returns("files_parseBlacklist") /\ io.ret)
        => \A i \in 1..(Len(FileHashes) - 1) : FileHashes[i] <= FileHashes[i + 1]

\* the bytes read() stored in buf
ContentRead == Prefix(io.src.data, io.done)

\* the content read truncated at its last newline, empty without a newline
TruncatedAtLastNewline(text) ==
    IF LastIndexOf(text, NL) = 0 THEN <<>>
    ELSE Prefix(text, LastIndexOf(text, NL) - 1)

\* C32: files_readSysFS returns -1 when open() fails; otherwise it returns
\* the count of read() and leaves in buf, as a string, the content read
\* truncated at its last newline: the bytes before the last newline, and the
\* empty string when the content has no newline, is empty or could not be
\* read.
C32_TruncatedAtLastNewline ==
    Returns("files_readSysFS") =>
       IF io.failed = "open" THEN io.retSz = -1
       ELSE /\ io.retSz = (IF io.failed = "read" THEN -1 ELSE io.done)
            /\ CString(SysMem) = TruncatedAtLastNewline(ContentRead)

\* the flags of hfuzz that an option without an argument sets
Flags ==
    {"nullifyStdio", "useScreen", "useVerifier", "saveMaps", "useSimplifier",
     "fuzzStdin", "saveUnique"}

\* the flag an option stands for
OwnFlag(c) ==
    CASE c = "q" -> "nullifyStdio"
      [] c = "v" -> "useScreen"
      [] c = "V" -> "useVerifier"
      [] c = "M" -> "saveMaps"
      [] c = "S" -> "useSimplifier"
      [] c = "s" -> "fuzzStdin"
      [] c = "u" -> "saveUnique"

\* C40: in the option loop of cmdlineParse each flag option changes only its
\* own flag: every other flag of hfuzz is after the option what it was
\* before; in particular -M leaves useSimplifier and -S leaves saveMaps
\* unchanged.
C40_OptionChangesOwnFlagOnly ==
    [][env.opts # env'.opts =>
          \A f \in Flags \ {OwnFlag(Head(env.opts))} : hfuzz'[f] = hfuzz[f]]_vars

====
